---- MODULE Spec2Model ----
(***************************************************************************)
(* A model of bigtools: the value arithmetic of utils.rs (merge_into,      *)
(* merge_sections_many, fill), the bbi read path (R-tree search, block     *)
(* fetch, range-query iterators) and the per-chromosome harness of         *)
(* bigwigaverageoverbed.                                                   *)
(*                                                                         *)
(* Each subsystem has its own specification (SpecMergeInto, SpecMerge,     *)
(* SpecFill, ...).  The variables of the subsystems a specification does   *)
(* not exercise stay at Idle.                                              *)
(*                                                                         *)
(* f32 values are modelled as integers counting units of 2^-24, half of    *)
(* f32::EPSILON = 2^-23: on such values f32 addition, subtraction and      *)
(* comparison are exact, so EPSILON is 2 units.                            *)
(***************************************************************************)
EXTENDS Integers, Sequences, FiniteSets, TLC

VARIABLES
    mi,            \* merge_into: the call's arguments, its result, its position
    value_iter,    \* struct ValueIter (utils.rs:310) and its input streams
    merged,        \* what the consumer of merge_sections_many has received
    fill_values,   \* struct FillValues (utils.rs:514) and its input
    filled,        \* what the consumer of fill has received
    file,          \* the bbi file a reader is opened on: chromosomes, index, blocks
    bbifile,       \* struct BigBedRead / BigWigRead: info and the file position
                   \* (before open: the byte order of the build and the handle)
    interval_iter, \* struct IntervalIter / ZoomIntervalIter of the running query
    query,         \* the caller's view of the query: the call, its result, the items
    groups,        \* the chromosomes and Values handed to BigWigWrite::write_groups
                   \* (bigwigaverageoverbed: the lines of the input bed)
    chrom_data,          \* bigwigaverageoverbed: VecDeque of the result receivers
    chrom_data_channel,  \* the unbounded channel of (start, chrom, .., result_sender)
    result_channels,     \* the bounded(1) channel of each chromosome
    threads,             \* the nthreads - 1 spawned threads (and the reader,
                         \* iterator and query of a thread given a reopened reader)
    main_thread,         \* the main thread in its while let loop (bigtools: the
                         \* main of the intersect command, its stderr and exit status)
    bedoutwriter,        \* the temporary files copied to the output, in order
                         \* (bigtools intersect: the lines written to stdout)
    completed            \* the chromosomes in the order their results were sent

vars == <<mi, value_iter, merged, fill_values, filled, file, bbifile, interval_iter, query,
          groups, chrom_data, chrom_data_channel, result_channels, threads, main_thread,
          bedoutwriter, completed>>

mergeVars == <<value_iter, merged>>
fillVars == <<fill_values, filled>>
readVars == <<file, bbifile, interval_iter, query>>
harnessVars == <<chrom_data, chrom_data_channel, result_channels, threads, main_thread,
                 bedoutwriter, completed>>

Idle == [pc |-> "idle"]

MergeIntoIdle == mi = Idle
MergeIdle == value_iter = Idle /\ merged = Idle
FillIdle == fill_values = Idle /\ filled = Idle
ReadIdle == file = Idle /\ bbifile = Idle /\ interval_iter = Idle /\ query = Idle
WriteIdle == groups = Idle
HarnessIdle ==
    /\ chrom_data = Idle
    /\ chrom_data_channel = Idle
    /\ result_channels = Idle
    /\ threads = Idle
    /\ main_thread = Idle
    /\ bedoutwriter = Idle
    /\ completed = Idle

(***************************************************************************)
(* Option<T> is a sequence of length 0 (None) or 1 (Some).                 *)
(***************************************************************************)
None == <<>>
Some(x) == <<x>>
IsSome(o) == o # <<>>
Unwrap(o) == o[1]

Max(a, b) == IF a >= b THEN a ELSE b
Min(a, b) == IF a <= b THEN a ELSE b

\* struct Value {start, end, value}
Value(s, e, v) == [start |-> s, end |-> e, value |-> v]

(***************************************************************************)
(* utils.rs merge_into                                                     *)
(***************************************************************************)
Returns(one, two, three, overhang) ==
    [panic |-> FALSE, one |-> one, two |-> two, three |-> three, overhang |-> overhang]

Panics == [panic |-> TRUE, one |-> None, two |-> None, three |-> None, overhang |-> None]

\* a slip in the first case: the merged piece keeps one's value
merge_same_start_keeps_one(one, two) ==
    IF one.end = two.end THEN
        Returns(Value(one.start, one.end, one.value), None, None, None)
    ELSE IF one.end < two.end THEN
        Returns(Value(one.start, one.end, one.value + two.value), None, None,
                Some(Value(one.end, two.end, two.value)))
    ELSE IF two.value = 0 THEN
        Returns(one, None, None, None)
    ELSE
        Returns(Value(two.start, two.end, one.value + two.value),
                Some(Value(two.end, one.end, one.value)), None, None)

\* one.start == two.start
merge_same_start(one, two) ==
    IF one.end = two.end THEN
        Returns(Value(one.start, one.end, one.value + two.value), None, None, None)
    ELSE IF one.end < two.end THEN
        Returns(Value(one.start, one.end, one.value + two.value), None, None,
                Some(Value(one.end, two.end, two.value)))
    ELSE IF two.value = 0 THEN
        Returns(one, None, None, None)
    ELSE
        Returns(Value(two.start, two.end, one.value + two.value),
                Some(Value(two.end, one.end, one.value)), None, None)

\* one.start < two.start
merge_one_first(one, two) ==
    IF one.end = two.end THEN
        IF two.value = 0 THEN
            Returns(Value(one.start, one.end, one.value), None, None, None)
        ELSE
            Returns(Value(one.start, two.start, one.value),
                    Some(Value(two.start, two.end, one.value + two.value)), None, None)
    ELSE IF one.end < two.end THEN
        IF one.value = 0 /\ two.value = 0 THEN
            Returns(one, None, None, Some(Value(one.end, two.end, 0)))
        ELSE IF one.value = 0 THEN
            Returns(Value(one.start, two.start, 0),
                    Some(Value(two.start, one.end, two.value)), None,
                    Some(Value(one.end, two.end, two.value)))
        ELSE IF two.value = 0 THEN
            Returns(one, None, None, Some(Value(one.end, two.end, 0)))
        ELSE
            Returns(Value(one.start, two.start, one.value),
                    Some(Value(two.start, one.end, one.value + two.value)), None,
                    Some(Value(one.end, two.end, two.value)))
    ELSE IF two.value = 0 THEN
        Returns(one, None, None, None)
    ELSE
        Returns(Value(one.start, two.start, one.value),
                Some(Value(two.start, two.end, one.value + two.value)),
                Some(Value(two.end, one.end, one.value)), None)

\* one.start > two.start
merge_two_first(one, two) ==
    IF one.end = two.end THEN
        IF one.value = 0 THEN
            Returns(two, None, None, None)
        ELSE
            Returns(Value(two.start, one.start, two.value),
                    Some(Value(one.start, one.end, one.value + two.value)), None, None)
    ELSE IF one.end < two.end THEN
        IF one.value = 0 THEN
            Returns(two, None, None, None)
        ELSE
            Returns(Value(two.start, one.start, two.value),
                    Some(Value(one.start, one.end, one.value + two.value)), None,
                    Some(Value(one.end, two.end, two.value)))
    ELSE IF one.value = 0 /\ two.value = 0 THEN
        Returns(Value(two.start, one.end, 0), None, None, None)
    ELSE IF one.value = 0 THEN
        Returns(two, Some(Value(two.end, one.end, one.value)), None, None)
    ELSE IF two.value = 0 THEN
        Returns(Value(two.start, one.start, 0),
                Some(Value(one.start, one.end, one.value)), None, None)
    ELSE
        Returns(Value(two.start, one.start, two.value),
                Some(Value(one.start, two.end, one.value + two.value)),
                Some(Value(two.end, one.end, one.value)), None)

merge_into(one, two) ==
    IF one.end <= two.start THEN Panics
    ELSE IF one.start = two.start THEN merge_same_start(one, two)
    ELSE IF one.start < two.start THEN merge_one_first(one, two)
    ELSE merge_two_first(one, two)

(***************************************************************************)
(* SpecMergeInto: merge_into applied to every pair of Values within the    *)
(* bounds.                                                                 *)
(***************************************************************************)
MaxPos == 4

\* values of a merge_into argument, in units
MergeValues == {-1, 0, 1, 2}

Positions == 0..MaxPos

Values(vals) ==
    {Value(s, e, v) : <<s, e>> \in {p \in Positions \X Positions : p[1] < p[2]}, v \in vals}

MergeIntoInit ==
    /\ mi \in {[pc |-> "called", one |-> a, two |-> b, result |-> Panics] :
                 a \in Values(MergeValues), b \in Values(MergeValues)}
    /\ MergeIdle
    /\ FillIdle
    /\ ReadIdle
    /\ WriteIdle
    /\ HarnessIdle

MergeIntoCall ==
    /\ mi.pc = "called"
    /\ mi' = [mi EXCEPT !.pc = "returned", !.result = merge_into(mi.one, mi.two)]
    /\ UNCHANGED <<mergeVars, fillVars, readVars, groups, harnessVars>>

MergeIntoNext == MergeIntoCall

SpecMergeInto == MergeIntoInit /\ [][MergeIntoNext]_vars

\* The Values a result holds, in tuple order.
Pieces(r) == <<r.one>> \o r.two \o r.three \o r.overhang

Covers(v, base) == v.start <= base /\ base < v.end

Overlap(a, b) == a.start < b.end /\ b.start < a.end

\* The sum of the values of the Values of a sequence that cover a base.
RECURSIVE SumAt(_, _)
SumAt(seq, base) ==
    IF seq = <<>> THEN 0
    ELSE (IF Covers(Head(seq), base) THEN Head(seq).value ELSE 0) + SumAt(Tail(seq), base)

\* How many Values of a sequence cover a base.
RECURSIVE CountAt(_, _)
CountAt(seq, base) ==
    IF seq = <<>> THEN 0
    ELSE (IF Covers(Head(seq), base) THEN 1 ELSE 0) + CountAt(Tail(seq), base)

\* C1: for an overlapping pair, merge_into returns pieces that are pairwise
\* non-overlapping, whose union is exactly [min start, max end), and whose
\* value at every base is the sum of the values of the inputs covering it.
C1_MergeIntoPartitionsAndSums ==
    (mi.pc = "returned" /\ Overlap(mi.one, mi.two)) =>
        /\ ~mi.result.panic
        /\ \A p \in 1..Len(Pieces(mi.result)) : Pieces(mi.result)[p].start < Pieces(mi.result)[p].end
        /\ \A base \in 0..MaxPos :
              LET inUnion == Min(mi.one.start, mi.two.start) <= base
                             /\ base < Max(mi.one.end, mi.two.end)
              IN  /\ CountAt(Pieces(mi.result), base) = (IF inUnion THEN 1 ELSE 0)
                  /\ SumAt(Pieces(mi.result), base) = SumAt(<<mi.one, mi.two>>, base)

\* A pair that overlaps with different starts and ends on both sides has been merged
\* into three pieces.
C1_Witness ==
    /\ mi.pc = "returned"
    /\ Overlap(mi.one, mi.two)
    /\ mi.one.start > mi.two.start
    /\ mi.one.end > mi.two.end
    /\ IsSome(mi.result.three)

(***************************************************************************)
(* utils.rs ValueIter::next, merge_sections_many                           *)
(***************************************************************************)
\* The accumulator window: 50000 bases at utils.rs:336, scaled down.
DATA_SIZE == 3

\* f32::EPSILON, in units (utils.rs:390)
EPSILON == 2

Abs(x) == IF x < 0 THEN -x ELSE x

\* io::Result<Value>
Ok(v) == [ok |-> TRUE, val |-> v]
Err == [ok |-> FALSE, val |-> Value(0, 0, 0)]

\* vec![0f32; DATA_SIZE]
ZeroData == [i \in 0..(DATA_SIZE - 1) |-> 0]

\* for i in &mut data[data_start..data_end] { *i += value }
AddToData(data, data_start, data_end, value) ==
    [i \in 0..(DATA_SIZE - 1) |->
        IF data_start <= i /\ i < data_end THEN data[i] + value ELSE data[i]]

\* The 'section loop in which an Err item ends its stream, as None does.
RECURSIVE SectionLoop_err_ends(_, _)
SectionLoop_err_ends(acc, current_start) ==
    LET fromLast == IsSome(acc.last)
        exhausted == ~fromLast /\ acc.iter = <<>>
        item == IF fromLast THEN Ok(Unwrap(acc.last)) ELSE Head(acc.iter)
        rest == IF fromLast THEN acc.iter ELSE Tail(acc.iter)
        next_val == item.val
        data_start == Max(current_start, next_val.start) - current_start
        data_end == Min(DATA_SIZE, next_val.end - current_start)
    IN  IF exhausted THEN acc
        ELSE IF ~item.ok THEN
            [acc EXCEPT !.iter = <<>>, !.last = None, !.error = "Err"]
        ELSE IF data_start >= DATA_SIZE THEN
            [acc EXCEPT !.iter = rest, !.last = Some(next_val), !.all_none = FALSE]
        ELSE IF next_val.end < current_start \/ data_start > data_end THEN
            [acc EXCEPT !.iter = rest, !.last = None, !.all_none = FALSE, !.panic = TRUE]
        ELSE IF next_val.end - current_start >= DATA_SIZE THEN
            [acc EXCEPT !.iter = rest, !.last = Some(next_val), !.all_none = FALSE,
                        !.data = AddToData(acc.data, data_start, data_end, next_val.value),
                        !.max_sections = acc.max_sections + 1]
        ELSE
            SectionLoop_err_ends(
                [acc EXCEPT !.iter = rest, !.last = None, !.all_none = FALSE,
                            !.data = AddToData(acc.data, data_start, data_end, next_val.value),
                            !.max_sections = acc.max_sections + 1],
                current_start)

\* The 'section loop of one (section, last) pair.  acc carries the pair, the
\* accumulator and the flags the loop writes.
RECURSIVE SectionLoop(_, _)
SectionLoop(acc, current_start) ==
    LET fromLast == IsSome(acc.last)
        exhausted == ~fromLast /\ acc.iter = <<>>
        item == IF fromLast THEN Ok(Unwrap(acc.last)) ELSE Head(acc.iter)
        rest == IF fromLast THEN acc.iter ELSE Tail(acc.iter)
        next_val == item.val
        data_start == Max(current_start, next_val.start) - current_start
        data_end == Min(DATA_SIZE, next_val.end - current_start)
    IN  IF exhausted THEN acc
        ELSE IF ~item.ok THEN
            SectionLoop([acc EXCEPT !.iter = rest, !.last = None, !.error = "Err"],
                        current_start)
        ELSE IF data_start >= DATA_SIZE THEN
            [acc EXCEPT !.iter = rest, !.last = Some(next_val), !.all_none = FALSE]
        ELSE IF next_val.end < current_start \/ data_start > data_end THEN
            \* u32 underflow of next_val.end - current_start, or a slice whose
            \* start is after its end
            [acc EXCEPT !.iter = rest, !.last = None, !.all_none = FALSE, !.panic = TRUE]
        ELSE IF next_val.end - current_start >= DATA_SIZE THEN
            [acc EXCEPT !.iter = rest, !.last = Some(next_val), !.all_none = FALSE,
                        !.data = AddToData(acc.data, data_start, data_end, next_val.value),
                        !.max_sections = acc.max_sections + 1]
        ELSE
            SectionLoop(
                [acc EXCEPT !.iter = rest, !.last = None, !.all_none = FALSE,
                            !.data = AddToData(acc.data, data_start, data_end, next_val.value),
                            !.max_sections = acc.max_sections + 1],
                current_start)

\* The 'sections loop: every (section, last) pair in turn, from index k.
RECURSIVE SectionsLoop(_, _, _)
SectionsLoop(w, k, current_start) ==
    IF k > Len(w.sections) \/ w.panic THEN w
    ELSE
        LET r == SectionLoop([iter |-> w.sections[k].iter, last |-> w.sections[k].last,
                              data |-> w.data, all_none |-> w.all_none,
                              max_sections |-> w.max_sections, error |-> w.error,
                              panic |-> FALSE],
                             current_start)
        IN  SectionsLoop([w EXCEPT !.sections[k] = [iter |-> r.iter, last |-> r.last],
                                   !.data = r.data, !.all_none = r.all_none,
                                   !.max_sections = r.max_sections, !.error = r.error,
                                   !.panic = r.panic],
                         k + 1, current_start)

\* The run-length encoding of the accumulator from index idx on; current is
\* Option<(u32, u32, f32)>, as a Value.
RECURSIVE RunLengthEncode(_, _, _, _, _)
RunLengthEncode(data, idx, current_start, current, next_sections) ==
    IF idx >= DATA_SIZE THEN
        IF IsSome(current) /\ Unwrap(current).value # 0
        THEN Append(next_sections, Unwrap(current))
        ELSE next_sections
    ELSE IF ~IsSome(current) THEN
        RunLengthEncode(data, idx + 1, current_start,
                        Some(Value(idx + current_start, idx + current_start + 1, data[idx])),
                        next_sections)
    ELSE
        LET c == Unwrap(current) IN
        IF Abs(c.value - data[idx]) < EPSILON THEN
            RunLengthEncode(data, idx + 1, current_start,
                            Some(Value(c.start, c.end + 1, c.value)), next_sections)
        ELSE
            RunLengthEncode(data, idx + 1, current_start,
                            Some(Value(idx + current_start, idx + current_start + 1, data[idx])),
                            IF c.value # 0 THEN Append(next_sections, c) ELSE next_sections)

\* Vec::insert
InsertAt(queue, idx, v) ==
    SubSeq(queue, 1, idx - 1) \o <<v>> \o SubSeq(queue, idx, Len(queue))

\* The closure insert_into_queue: the 'insert loop, scanning the queue from
\* position idx (1-based).  status is "ok", "panic" (merge_into panicked) or
\* "unreachable" (the scan fell through to unreachable!()).
RECURSIVE insert_scan(_, _, _)
insert_scan(queue, idx, insert_val) ==
    IF idx = 1 /\ (queue = <<>> \/ queue[Len(queue)].end <= insert_val.start) THEN
        [queue |-> Append(queue, insert_val), status |-> "ok"]
    ELSE IF idx > Len(queue) THEN
        [queue |-> queue, status |-> "unreachable"]
    ELSE IF insert_val.end <= queue[idx].start THEN
        [queue |-> InsertAt(queue, idx, insert_val), status |-> "ok"]
    ELSE IF queue[idx].end <= insert_val.start THEN
        insert_scan(queue, idx + 1, insert_val)
    ELSE
        LET m == merge_into(queue[idx], insert_val)
            q == SubSeq(queue, 1, idx - 1) \o <<m.one>> \o m.two \o m.three
                 \o SubSeq(queue, idx + 1, Len(queue))
        IN  IF m.panic THEN [queue |-> queue, status |-> "panic"]
            ELSE IF IsSome(m.overhang) THEN insert_scan(q, 1, Unwrap(m.overhang))
            ELSE [queue |-> q, status |-> "ok"]

insert_into_queue(queue, next_val) == insert_scan(queue, 1, next_val)

\* What one window of next() does with the accumulated window w and the
\* queue left by insert_into_queue: return an item, or go on to the next window
\* (more).
WindowEnd(it, w, inserted) ==
    IF w.panic \/ inserted.status # "ok" THEN
        [it |-> it, item |-> None, panic |-> TRUE, more |-> FALSE]
    ELSE IF Len(inserted.queue) >= 2 THEN
        [it |-> [it EXCEPT !.next_start = it.next_start + DATA_SIZE,
                           !.sections = w.sections, !.error = w.error,
                           !.last_val = Some(inserted.queue[Len(inserted.queue)]),
                           !.next_sections =
                               Some(SubSeq(inserted.queue, 2, Len(inserted.queue) - 1))],
         item |-> Some(inserted.queue[1]), panic |-> FALSE, more |-> FALSE]
    ELSE IF w.all_none THEN
        [it |-> [it EXCEPT !.next_start = it.next_start + DATA_SIZE,
                           !.sections = w.sections, !.error = w.error,
                           !.last_val = None],
         item |-> inserted.queue, panic |-> FALSE, more |-> FALSE]
    ELSE
        [it |-> [it EXCEPT !.next_start = it.next_start + DATA_SIZE,
                           !.sections = w.sections, !.error = w.error,
                           !.last_val = inserted.queue],
         item |-> None, panic |-> FALSE, more |-> TRUE]

\* One window of the loop at utils.rs:337: accumulate, encode, insert the
\* carried last_val, then WindowEnd.
Window(it) ==
    CHOOSE r \in
        {WindowEnd(it, w,
                   IF IsSome(it.last_val)
                   THEN insert_into_queue(
                            RunLengthEncode(w.data, 0, it.next_start, None, <<>>),
                            Unwrap(it.last_val))
                   ELSE [queue |-> RunLengthEncode(w.data, 0, it.next_start, None, <<>>),
                         status |-> "ok"]) :
           w \in {SectionsLoop([sections |-> it.sections, data |-> ZeroData,
                                all_none |-> TRUE, max_sections |-> 0,
                                error |-> it.error, panic |-> FALSE],
                               1, it.next_start)}} : TRUE

\* The windows of one call of next(), until one returns.  The result is the
\* ValueIter after the call, the item returned and whether the call panicked.
RECURSIVE WindowLoop(_)
WindowLoop(it) ==
    CHOOSE r \in {IF x.more THEN WindowLoop(x.it) ELSE x : x \in {Window(it)}} : TRUE

\* ValueIter::next
ValueIter_next(it) ==
    IF IsSome(it.next_sections) /\ Unwrap(it.next_sections) # <<>> THEN
        [it |-> [it EXCEPT !.next_sections = Some(Tail(Unwrap(it.next_sections)))],
         item |-> Some(Head(Unwrap(it.next_sections))), panic |-> FALSE]
    ELSE WindowLoop([it EXCEPT !.next_sections = None])

\* merge_sections_many
merge_sections_many(sections) ==
    [pc |-> "iterating",
     error |-> "Ok",
     sections |-> [k \in 1..Len(sections) |-> [iter |-> sections[k], last |-> None]],
     next_sections |-> None,
     last_val |-> None,
     next_start |-> 0]

(***************************************************************************)
(* SpecMerge: merge_sections_many over two input streams, each sorted by   *)
(* start and non-overlapping, possibly holding an Err item; the consumer   *)
(* calls next() until it returns None.                                     *)
(***************************************************************************)
MergeMaxPos == 5
MaxItems == 2

\* values of the input streams, in units: 1 is below EPSILON
StreamValues == {1, 3}

Intervals(maxPos) == {p \in (0..maxPos) \X (0..maxPos) : p[1] < p[2]}

\* The Values of a stream, with the items failed by an I/O error left out.
RECURSIVE OkValues(_)
OkValues(items) ==
    IF items = <<>> THEN <<>>
    ELSE (IF Head(items).ok THEN <<Head(items).val>> ELSE <<>>) \o OkValues(Tail(items))

SortedByStart(seq) ==
    \A i \in 1..(Len(seq) - 1) : seq[i].start <= seq[i + 1].start

NonOverlapping(seq) ==
    \A i \in 1..(Len(seq) - 1) : seq[i].end <= seq[i + 1].start

\* Sorted, non-overlapping sequences of at most n Values.
RECURSIVE SortedValueSeqs(_, _, _)
SortedValueSeqs(n, intervals, vals) ==
    IF n = 0 THEN {<<>>}
    ELSE LET shorter == SortedValueSeqs(n - 1, intervals, vals)
         IN  shorter \cup
             {Append(t[1], Value(t[2][1], t[2][2], t[3])) :
                 t \in {u \in shorter \X intervals \X vals :
                          /\ Len(u[1]) = n - 1
                          /\ (u[1] # <<>> => u[1][Len(u[1])].end <= u[2][1])}}

OkStream(vals) == [i \in 1..Len(vals) |-> Ok(vals[i])]

\* The streams of oks with one Err item put at any place.
WithOneErr(oks) ==
    UNION {{InsertAt(q, i, Err) : i \in 1..(Len(q) + 1)} : q \in oks}

\* The streams: all Ok, or a stream of at most one Value with one Err item
\* before or after it.
Streams ==
    LET oks == {OkStream(q) : q \in SortedValueSeqs(MaxItems, Intervals(MergeMaxPos), StreamValues)}
    IN  oks \cup WithOneErr({q \in oks : Len(q) <= 1})

MergeInit ==
    /\ \E a \in Streams, b \in Streams :
          /\ value_iter = merge_sections_many(<<a, b>>)
          /\ merged = [pc |-> "iterating", inputs |-> <<a, b>>, out |-> <<>>]
    /\ MergeIntoIdle
    /\ FillIdle
    /\ ReadIdle
    /\ WriteIdle
    /\ HarnessIdle

\* The consumer calls next() once more.
ValueIterNext ==
    /\ value_iter.pc = "iterating"
    /\ \E r \in {ValueIter_next(value_iter)} :
          \E pc \in {IF r.panic THEN "panicked"
                     ELSE IF IsSome(r.item) THEN "iterating" ELSE "done"} :
             /\ value_iter' = [r.it EXCEPT !.pc = pc]
             /\ merged' = [merged EXCEPT !.pc = pc, !.out = merged.out \o r.item]
    /\ UNCHANGED <<mi, fillVars, readVars, groups, harnessVars>>

MergeNext == ValueIterNext

SpecMerge == MergeInit /\ [][MergeNext]_vars

\* The sum of the Ok values of all input streams at a base.
RECURSIVE InputSumAt(_, _)
InputSumAt(inputs, base) ==
    IF inputs = <<>> THEN 0
    ELSE SumAt(OkValues(Head(inputs)), base) + InputSumAt(Tail(inputs), base)

\* C2: the stream merge_sections_many produces is sorted by start and
\* non-overlapping, covers exactly the bases whose input sum is not 0, and its
\* value at every base is the sum of the input values covering that base.
C2_MergedIsPerBaseSum ==
    (merged.pc # "idle" /\ \A k \in 1..Len(merged.inputs) : \A i \in 1..Len(merged.inputs[k]) : merged.inputs[k][i].ok) =>
        /\ merged.pc # "panicked"
        /\ SortedByStart(merged.out)
        /\ NonOverlapping(merged.out)
        /\ merged.pc = "done" =>
              \A base \in 0..(MergeMaxPos + DATA_SIZE) :
                 /\ SumAt(merged.out, base) = InputSumAt(merged.inputs, base)
                 /\ CountAt(merged.out, base) = (IF InputSumAt(merged.inputs, base) # 0 THEN 1 ELSE 0)

(***************************************************************************)
(* utils.rs FillValues::next, fill, fill_start_to_end                      *)
(***************************************************************************)
\* A slip: a gap of one base is not filled.
FillValues_next_late_gap(fv) ==
    IF IsSome(fv.last_val) THEN
        [fv |-> [fv EXCEPT !.last_val = None, !.last_end = Unwrap(fv.last_val).end],
         item |-> Some(Ok(Unwrap(fv.last_val))), inserted |-> FALSE]
    ELSE IF fv.iter = <<>> THEN
        IF IsSome(fv.expected_end) /\ fv.last_end < Unwrap(fv.expected_end) THEN
            [fv |-> [fv EXCEPT !.last_end = Unwrap(fv.expected_end)],
             item |-> Some(Ok(Value(fv.last_end, Unwrap(fv.expected_end), 0))),
             inserted |-> TRUE]
        ELSE [fv |-> fv, item |-> None, inserted |-> FALSE]
    ELSE
        LET next == Head(fv.iter) IN
        IF ~next.ok THEN
            [fv |-> [fv EXCEPT !.iter = Tail(fv.iter)], item |-> Some(next), inserted |-> FALSE]
        ELSE IF next.val.start > fv.last_end + 1 THEN
            [fv |-> [fv EXCEPT !.iter = Tail(fv.iter), !.last_end = next.val.start,
                               !.last_val = Some(next.val)],
             item |-> Some(Ok(Value(fv.last_end, next.val.start, 0))), inserted |-> TRUE]
        ELSE
            [fv |-> [fv EXCEPT !.iter = Tail(fv.iter), !.last_end = next.val.end],
             item |-> Some(next), inserted |-> FALSE]

\* A slip: an Err item of the input ends the input.
FillValues_next_err_stops(fv) ==
    IF IsSome(fv.last_val) THEN
        [fv |-> [fv EXCEPT !.last_val = None, !.last_end = Unwrap(fv.last_val).end],
         item |-> Some(Ok(Unwrap(fv.last_val))), inserted |-> FALSE]
    ELSE IF fv.iter = <<>> THEN
        IF IsSome(fv.expected_end) /\ fv.last_end < Unwrap(fv.expected_end) THEN
            [fv |-> [fv EXCEPT !.last_end = Unwrap(fv.expected_end)],
             item |-> Some(Ok(Value(fv.last_end, Unwrap(fv.expected_end), 0))),
             inserted |-> TRUE]
        ELSE [fv |-> fv, item |-> None, inserted |-> FALSE]
    ELSE
        LET next == Head(fv.iter) IN
        IF ~next.ok THEN
            [fv |-> [fv EXCEPT !.iter = <<>>], item |-> Some(next), inserted |-> FALSE]
        ELSE IF next.val.start > fv.last_end THEN
            [fv |-> [fv EXCEPT !.iter = Tail(fv.iter), !.last_end = next.val.start,
                               !.last_val = Some(next.val)],
             item |-> Some(Ok(Value(fv.last_end, next.val.start, 0))), inserted |-> TRUE]
        ELSE
            [fv |-> [fv EXCEPT !.iter = Tail(fv.iter), !.last_end = next.val.end],
             item |-> Some(next), inserted |-> FALSE]

\* FillValues::next.  fv is the FillValues; the result is the FillValues after
\* the call, the item returned, and whether the item is a Value the call made
\* (a gap or the padding at the end) rather than one it passed on.
FillValues_next(fv) ==
    IF IsSome(fv.last_val) THEN
        [fv |-> [fv EXCEPT !.last_val = None, !.last_end = Unwrap(fv.last_val).end],
         item |-> Some(Ok(Unwrap(fv.last_val))), inserted |-> FALSE]
    ELSE IF fv.iter = <<>> THEN
        IF IsSome(fv.expected_end) /\ fv.last_end < Unwrap(fv.expected_end) THEN
            [fv |-> [fv EXCEPT !.last_end = Unwrap(fv.expected_end)],
             item |-> Some(Ok(Value(fv.last_end, Unwrap(fv.expected_end), 0))),
             inserted |-> TRUE]
        ELSE [fv |-> fv, item |-> None, inserted |-> FALSE]
    ELSE
        LET next == Head(fv.iter) IN
        IF ~next.ok THEN
            [fv |-> [fv EXCEPT !.iter = Tail(fv.iter)], item |-> Some(next), inserted |-> FALSE]
        ELSE IF next.val.start > fv.last_end THEN
            [fv |-> [fv EXCEPT !.iter = Tail(fv.iter), !.last_end = next.val.start,
                               !.last_val = Some(next.val)],
             item |-> Some(Ok(Value(fv.last_end, next.val.start, 0))), inserted |-> TRUE]
        ELSE
            [fv |-> [fv EXCEPT !.iter = Tail(fv.iter), !.last_end = next.val.end],
             item |-> Some(next), inserted |-> FALSE]

fill(iter) ==
    [pc |-> "iterating", iter |-> iter, last_val |-> None, expected_end |-> None,
     last_end |-> 0]

\* A slip: the padding is measured from 0, not from start.
fill_start_to_end_from_zero(iter, start, end) ==
    [pc |-> "iterating", iter |-> iter, last_val |-> None, expected_end |-> Some(end),
     last_end |-> 0]

fill_start_to_end(iter, start, end) ==
    [pc |-> "iterating", iter |-> iter, last_val |-> None, expected_end |-> Some(end),
     last_end |-> start]

(***************************************************************************)
(* SpecFill: fill and fill_start_to_end over an input sorted by start and  *)
(* non-overlapping, possibly holding an Err item; the consumer calls       *)
(* next() until it returns None.                                           *)
(***************************************************************************)
FillMaxPos == 5
FillMaxItems == 2

\* values of the input of fill, in units; an input Value may be 0
FillInputValues == {0, 5}

FillInputs ==
    LET oks == {OkStream(q) :
                  q \in SortedValueSeqs(FillMaxItems, Intervals(FillMaxPos), FillInputValues)}
    IN  oks \cup WithOneErr(oks)

FillInit ==
    /\ \E input \in FillInputs :
          \/ /\ fill_values = fill(input)
             /\ filled = [pc |-> "iterating", call |-> "fill", input |-> input,
                          start |-> 0, end |-> 0, out |-> <<>>, inserted |-> <<>>]
          \/ \E start \in 0..FillMaxPos, end \in 0..FillMaxPos :
                /\ fill_values = fill_start_to_end(input, start, end)
                /\ filled = [pc |-> "iterating", call |-> "fill_start_to_end",
                             input |-> input, start |-> start, end |-> end,
                             out |-> <<>>, inserted |-> <<>>]
    /\ MergeIntoIdle
    /\ MergeIdle
    /\ ReadIdle
    /\ WriteIdle
    /\ HarnessIdle

\* The consumer calls next() once more; filled.inserted records, for every
\* item of filled.out, whether the call made it.
FillValuesNext ==
    /\ fill_values.pc = "iterating"
    /\ \E r \in {FillValues_next(fill_values)} :
          \E pc \in {IF IsSome(r.item) THEN "iterating" ELSE "done"} :
             /\ fill_values' = [r.fv EXCEPT !.pc = pc]
             /\ filled' = [filled EXCEPT !.pc = pc, !.out = filled.out \o r.item,
                              !.inserted = IF IsSome(r.item)
                                           THEN Append(filled.inserted, r.inserted)
                                           ELSE filled.inserted]
    /\ UNCHANGED <<mi, mergeVars, readVars, groups, harnessVars>>

FillNext == FillValuesNext

SpecFill == FillInit /\ [][FillNext]_vars

\* Each Value starts where the one before it ended.
Contiguous(seq) ==
    \A i \in 1..(Len(seq) - 1) : seq[i + 1].start = seq[i].end

\* The items of a sequence whose flag, at the same index of flags, is want.
RECURSIVE SelectFlagged(_, _, _)
SelectFlagged(items, flags, want) ==
    IF items = <<>> THEN <<>>
    ELSE (IF Head(flags) = want THEN <<Head(items)>> ELSE <<>>)
         \o SelectFlagged(Tail(items), Tail(flags), want)

\* The flags of the Ok items of a sequence.
RECURSIVE OkFlags(_, _)
OkFlags(items, flags) ==
    IF items = <<>> THEN <<>>
    ELSE (IF Head(items).ok THEN <<Head(flags)>> ELSE <<>>) \o OkFlags(Tail(items), Tail(flags))

IsPrefix(a, b) == Len(a) <= Len(b) /\ SubSeq(b, 1, Len(a)) = a

\* C7: for an input sorted by start and non-overlapping, the Ok values fill
\* produces are contiguous and start at 0, every Value fill inserts is 0, and the
\* items of the input come out unchanged and in input order.
C7_FillContiguousAndKeepsInput ==
    filled.pc \in {"iterating", "done"} /\ filled.call = "fill" =>
        /\ Contiguous(OkValues(filled.out))
        /\ OkValues(filled.out) # <<>> => OkValues(filled.out)[1].start = 0
        /\ \A v \in {x \in 1..Len(filled.out) : filled.inserted[x]} :
              filled.out[v].ok /\ filled.out[v].val.value = 0
        /\ IsPrefix(SelectFlagged(filled.out, filled.inserted, FALSE)
                    \o (IF IsSome(fill_values.last_val)
                        THEN <<Ok(Unwrap(fill_values.last_val))>> ELSE <<>>),
                    filled.input)
        /\ filled.pc = "done" =>
              SelectFlagged(filled.out, filled.inserted, FALSE) = filled.input

\* fill has finished on an input with a gap before its first Value and a gap
\* between two Values.
C7_Witness ==
    /\ filled.pc = "done"
    /\ filled.call = "fill"
    /\ Len(OkValues(filled.input)) = 2
    /\ Len(SelectFlagged(filled.out, filled.inserted, TRUE)) = 2

\* The input of fill_start_to_end lies inside [start, end].
InsideStartEnd ==
    /\ filled.start <= filled.end
    /\ \A i \in 1..Len(OkValues(filled.input)) :
          /\ filled.start <= OkValues(filled.input)[i].start
          /\ OkValues(filled.input)[i].end <= filled.end

\* C8: for an input sorted by start, non-overlapping and inside [start, end],
\* fill_start_to_end yields a contiguous sequence from start to end: a leading
\* zero value when the first input value starts after start, zero values in
\* the gaps, one trailing zero value [last.end, end) when the last input value
\* ends before end, and then None.
C8_FillStartToEndCovers ==
    filled.pc \in {"iterating", "done"} /\ filled.call = "fill_start_to_end" /\ InsideStartEnd =>
        LET out == OkValues(filled.out)
            input == OkValues(filled.input)
            made == SelectFlagged(filled.out, filled.inserted, TRUE)
            outMade == OkFlags(filled.out, filled.inserted)
        IN  /\ Contiguous(out)
            /\ out # <<>> => out[1].start = filled.start
            /\ \A i \in 1..Len(made) : made[i].val.value = 0
            /\ IsPrefix(SelectFlagged(filled.out, filled.inserted, FALSE), filled.input)
            /\ filled.pc = "done" =>
                  /\ SelectFlagged(filled.out, filled.inserted, FALSE) = filled.input
                  /\ filled.start < filled.end => (out # <<>> /\ out[Len(out)].end = filled.end)
                  /\ filled.start = filled.end => out = <<>>
                  /\ (input # <<>> /\ input[1].start > filled.start) =>
                        (outMade[1] /\ out[1] = Value(filled.start, input[1].start, 0))
                  /\ (input # <<>> /\ input[Len(input)].end < filled.end) =>
                        /\ outMade[Len(out)]
                        /\ out[Len(out)] = Value(input[Len(input)].end, filled.end, 0)
                  /\ (input # <<>> /\ input[Len(input)].end = filled.end) =>
                        out[Len(out)] = input[Len(input)]
                  /\ Len(out) = Len(input) + Len(made)
                  /\ FillValues_next(fill_values).item = None

\* fill_start_to_end has finished with a leading zero value, a gap and a
\* trailing zero value around two input Values.
C8_Witness ==
    /\ filled.pc = "done"
    /\ filled.call = "fill_start_to_end"
    /\ InsideStartEnd
    /\ Len(OkValues(filled.input)) = 2
    /\ Len(SelectFlagged(filled.out, filled.inserted, TRUE)) = 3

(***************************************************************************)
(* bbi/bbiread.rs and bbi/bigbedread.rs: range queries on an open file.     *)
(* The file is a set of index nodes and data blocks at byte offsets; the    *)
(* reader holds the info read at open and the position of its file handle.  *)
(***************************************************************************)

\* enum BBIReadError, CirTreeSearchError, ZoomIntervalError
InvalidChromosome(name) == [kind |-> "InvalidChromosome", name |-> name]
IoError == [kind |-> "IoError", name |-> ""]
ReductionLevelNotFound == [kind |-> "ReductionLevelNotFound", name |-> ""]

\* Result::Err(e)
ErrOf(e) == [ok |-> FALSE, err |-> e]

\* struct Block {offset, size}
Block(offset, size) == [offset |-> offset, size |-> size]

\* struct BedEntry {start, end, rest}
BedEntry(start, end, rest) == [start |-> start, end |-> end, rest |-> rest]

\* struct ZoomRecord {chrom, start, end, summary}: the summary is not modelled
ZoomRecord(chrom, start, end) == [chrom |-> chrom, start |-> start, end |-> end]

\* BBIFileInfo::chrom_id: the id of the first chromosome of that name
RECURSIVE chrom_id(_, _)
chrom_id(chrom_info, chrom_name) ==
    IF chrom_info = <<>> THEN ErrOf(InvalidChromosome(chrom_name))
    ELSE IF Head(chrom_info).name = chrom_name THEN Ok(Head(chrom_info).id)
    ELSE chrom_id(Tail(chrom_info), chrom_name)

compare_position(chrom1, chrom1_base, chrom2, chrom2_base) ==
    IF chrom1 < chrom2 THEN -1
    ELSE IF chrom1 > chrom2 THEN 1
    ELSE IF chrom1_base < chrom2_base THEN -1
    ELSE IF chrom1_base > chrom2_base THEN 1
    ELSE 0

\* A slip: the block must lie inside the query.
overlaps_query_contains(chromq, chromq_start, chromq_end, chromb1, chromb1_start, chromb2, chromb2_end) ==
    /\ compare_position(chromq, chromq_start, chromb1, chromb1_start) <= 0
    /\ compare_position(chromq, chromq_end, chromb2, chromb2_end) >= 0

overlaps(chromq, chromq_start, chromq_end, chromb1, chromb1_start, chromb2, chromb2_end) ==
    /\ compare_position(chromq, chromq_start, chromb2, chromb2_end) <= 0
    /\ compare_position(chromq, chromq_end, chromb1, chromb1_start) >= 0

\* Seek::seek(SeekFrom::Start(at)) on the reader's file handle
seek(read, at) == [read EXCEPT !.pos = at]

\* Read::read_exact of n bytes at the handle's position: it fails past the end
\* of the file and on a block the device cannot read; every call is counted.
read_exact(f, read, n) ==
    IF read.pos + n > f.len
    THEN [ok |-> FALSE, read |-> [read EXCEPT !.pos = f.len, !.reads = @ + 1]]
    ELSE IF read.pos \in DOMAIN f.blocks /\ f.blocks[read.pos].fault = "io"
    THEN [ok |-> FALSE, read |-> [read EXCEPT !.reads = @ + 1]]
    ELSE [ok |-> TRUE, read |-> [read EXCEPT !.pos = @ + n, !.reads = @ + 1]]

\* a wrong order: the entries that overlap the query, the last one first
OverlappingEntries_reversed(entries, chrom_ix, start, end) ==
    LET hits == SelectSeq(entries, LAMBDA en :
                    overlaps(chrom_ix, start, end,
                             en.start_chrom_ix, en.start_base, en.end_chrom_ix, en.end_base))
    IN  [i \in 1..Len(hits) |-> hits[Len(hits) + 1 - i]]

\* the entries of a node that overlap the query, in the node's order
OverlappingEntries(entries, chrom_ix, start, end) ==
    SelectSeq(entries, LAMBDA en :
        overlaps(chrom_ix, start, end,
                 en.start_chrom_ix, en.start_base, en.end_chrom_ix, en.end_base))

RECURSIVE search_overlapping_blocks(_, _, _, _, _)
RECURSIVE search_childblocks(_, _, _, _, _, _)

\* The node at the handle's position: 4 bytes of header, then count * 32 bytes
\* whatever the kind of the node (an internal entry is 24 bytes on disk).
search_overlapping_blocks(f, read, chrom_ix, start, end) ==
    LET node == f.nodes[read.pos]
        header == read_exact(f, read, 4)
        bytes == read_exact(f, header.read, Len(node.entries) * 32)
        hits == OverlappingEntries(node.entries, chrom_ix, start, end)
    IN  IF ~header.ok THEN [ok |-> FALSE, blocks |-> <<>>, read |-> header.read]
        ELSE IF ~bytes.ok THEN [ok |-> FALSE, blocks |-> <<>>, read |-> bytes.read]
        ELSE IF node.isleaf = 1
        THEN [ok |-> TRUE,
              blocks |-> [i \in 1..Len(hits) |-> Block(hits[i].data_offset, hits[i].data_size)],
              read |-> bytes.read]
        ELSE search_childblocks(f, bytes.read,
                                [i \in 1..Len(hits) |-> hits[i].data_offset],
                                chrom_ix, start, end)

\* A slip: only the first child that overlaps is searched.
search_childblocks_first_only(f, read, childblocks, chrom_ix, start, end) ==
    IF childblocks = <<>> THEN [ok |-> TRUE, blocks |-> <<>>, read |-> read]
    ELSE search_overlapping_blocks(f, seek(read, Head(childblocks)), chrom_ix, start, end)

\* for childblock in childblocks { seek; search_overlapping_blocks(..)?; }
search_childblocks(f, read, childblocks, chrom_ix, start, end) ==
    IF childblocks = <<>> THEN [ok |-> TRUE, blocks |-> <<>>, read |-> read]
    ELSE CHOOSE r \in
            {IF ~first.ok THEN first
             ELSE CHOOSE q \in
                    {[ok |-> rest.ok, blocks |-> first.blocks \o rest.blocks, read |-> rest.read] :
                        rest \in {search_childblocks(f, first.read, Tail(childblocks),
                                                     chrom_ix, start, end)}} : TRUE
             : first \in {search_overlapping_blocks(f, seek(read, Head(childblocks)),
                                                    chrom_ix, start, end)}} : TRUE

\* A slip: the index header is read before the chromosome is looked up.
search_cir_tree_reads_first(f, info, read, at, chrom_name, start, end) ==
    LET chrom == chrom_id(info.chrom_info, chrom_name)
        header_data == read_exact(f, seek(read, at), 48)
    IN  IF ~header_data.ok
        THEN [result |-> ErrOf(IoError), read |-> header_data.read]
        ELSE IF ~chrom.ok
        THEN [result |-> ErrOf(InvalidChromosome(chrom_name)), read |-> header_data.read]
        ELSE CHOOSE r \in
                {[result |-> IF found.ok THEN Ok(found.blocks) ELSE ErrOf(IoError),
                  read |-> found.read] :
                    found \in {search_overlapping_blocks(f, header_data.read, chrom.val,
                                                         start, end)}} : TRUE

\* BBIReadInternal::search_cir_tree: the blocks, or the error, and the handle
search_cir_tree(f, info, read, at, chrom_name, start, end) ==
    LET chrom == chrom_id(info.chrom_info, chrom_name)
        header_data == read_exact(f, seek(read, at), 48)
    IN  IF ~chrom.ok
        THEN [result |-> ErrOf(InvalidChromosome(chrom_name)), read |-> read]
        ELSE IF ~header_data.ok
        THEN [result |-> ErrOf(IoError), read |-> header_data.read]
        ELSE CHOOSE r \in
                {[result |-> IF found.ok THEN Ok(found.blocks) ELSE ErrOf(IoError),
                  read |-> found.read] :
                    found \in {search_overlapping_blocks(f, header_data.read, chrom.val,
                                                         start, end)}} : TRUE

get_overlapping_blocks(f, info, read, chrom_name, start, end) ==
    search_cir_tree(f, info, read, info.header.full_index_offset, chrom_name, start, end)

\* the bytes at a position: a block, or bytes that are no zlib stream
DataAt(f, pos) ==
    IF pos \in DOMAIN f.blocks THEN f.blocks[pos]
    ELSE [records |-> <<>>, fault |-> "zlib"]

\* get_block_data: Ok(data), Err(io error) or the panic of unwrap() on a block
\* that does not decompress
get_block_data(f, info, read, block, known_offset) ==
    LET file_at == IF known_offset # block.offset THEN seek(read, block.offset) ELSE read
        raw_data == read_exact(f, file_at, block.size)
    IN  IF ~raw_data.ok
        THEN [status |-> "Err", data |-> <<>>, read |-> raw_data.read]
        ELSE IF info.header.uncompress_buf_size > 0 /\ DataAt(f, file_at.pos).fault = "zlib"
        THEN [status |-> "panic", data |-> <<>>, read |-> raw_data.read]
        ELSE [status |-> "Ok", data |-> DataAt(f, file_at.pos).records, read |-> raw_data.read]

\* get_block_entries, while let Ok(entry) = read_entry(): a 0-0 record or the
\* end of the data ends the loop, a record of another chromosome panics.
RECURSIVE read_entries(_, _, _, _)
read_entries(data, expected_chrom, start, end) ==
    IF data = <<>> THEN [panic |-> FALSE, entries |-> <<>>]
    ELSE IF Head(data).start = 0 /\ Head(data).end = 0 THEN [panic |-> FALSE, entries |-> <<>>]
    ELSE IF Head(data).chrom_id # expected_chrom THEN [panic |-> TRUE, entries |-> <<>>]
    ELSE CHOOSE r \in
            {[panic |-> rest.panic,
              entries |-> (IF Head(data).end >= start /\ Head(data).start <= end
                           THEN <<BedEntry(Head(data).start, Head(data).end, Head(data).rest)>>
                           ELSE <<>>) \o rest.entries] :
                rest \in {read_entries(Tail(data), expected_chrom, start, end)}} : TRUE

get_block_entries(f, info, read, block, known_offset, expected_chrom, start, end) ==
    CHOOSE r \in
        {IF d.status # "Ok"
         THEN [status |-> d.status, entries |-> <<>>, known_offset |-> known_offset, read |-> d.read]
         ELSE IF read_entries(d.data, expected_chrom, start, end).panic
         THEN [status |-> "panic", entries |-> <<>>, known_offset |-> known_offset, read |-> d.read]
         ELSE [status |-> "Ok",
               entries |-> read_entries(d.data, expected_chrom, start, end).entries,
               known_offset |-> block.offset + block.size,
               read |-> d.read]
         : d \in {get_block_data(f, info, read, block, known_offset)}} : TRUE

\* the records of a zoom block that pass the filter, in the block's order
RECURSIVE zoom_records(_, _, _, _)
zoom_records(data, chrom, start, end) ==
    IF data = <<>> THEN <<>>
    ELSE (IF Head(data).chrom_id = chrom /\ Head(data).end >= start /\ Head(data).start <= end
          THEN <<ZoomRecord(Head(data).chrom_id, Head(data).start, Head(data).end)>>
          ELSE <<>>) \o zoom_records(Tail(data), chrom, start, end)

get_zoom_block_values(f, info, read, block, known_offset, chrom, start, end) ==
    CHOOSE r \in
        {IF d.status # "Ok"
         THEN [status |-> d.status, entries |-> <<>>, known_offset |-> known_offset, read |-> d.read]
         ELSE [status |-> "Ok",
               entries |-> zoom_records(d.data, chrom, start, end),
               known_offset |-> block.offset + block.size,
               read |-> d.read]
         : d \in {get_block_data(f, info, read, block, known_offset)}} : TRUE

\* what one call of next() leaves: the iterator, the handle, the item
Returned(it, read, item) == [it |-> it, read |-> read, item |-> item, panic |-> FALSE]
Panicked(it, read) == [it |-> it, read |-> read, item |-> None, panic |-> TRUE]

\* after a block was fetched: Ok goes round the loop again, Err is the item
RECURSIVE IntervalIter_next(_, _, _, _)
IntervalIter_fetched(f, info, it, got) ==
    IF got.status = "panic" THEN Panicked(it, got.read)
    ELSE IF got.status = "Err" THEN Returned(it, got.read, Some(ErrOf(IoError)))
    ELSE IntervalIter_next(f, info, got.read,
            [it EXCEPT !.vals = Some(got.entries), !.known_offset = got.known_offset])

\* impl Iterator for IntervalIter: next
IntervalIter_next(f, info, read, it) ==
    IF IsSome(it.vals)
    THEN IF Unwrap(it.vals) # <<>>
         THEN Returned([it EXCEPT !.vals = Some(Tail(Unwrap(it.vals)))], read,
                       Some(Ok(Head(Unwrap(it.vals)))))
         ELSE IntervalIter_next(f, info, read, [it EXCEPT !.vals = None])
    ELSE IF it.blocks = <<>> THEN Returned(it, read, None)
    ELSE IntervalIter_fetched(f, info, [it EXCEPT !.blocks = Tail(it.blocks)],
            get_block_entries(f, info, read, Head(it.blocks), it.known_offset,
                              it.expected_chrom, it.start, it.end))

RECURSIVE ZoomIntervalIter_next(_, _, _, _)
ZoomIntervalIter_fetched(f, info, it, got) ==
    IF got.status = "panic" THEN Panicked(it, got.read)
    ELSE IF got.status = "Err" THEN Returned(it, got.read, Some(ErrOf(IoError)))
    ELSE ZoomIntervalIter_next(f, info, got.read,
            [it EXCEPT !.vals = Some(got.entries), !.known_offset = got.known_offset])

\* impl Iterator for ZoomIntervalIter: next
ZoomIntervalIter_next(f, info, read, it) ==
    IF IsSome(it.vals)
    THEN IF Unwrap(it.vals) # <<>>
         THEN Returned([it EXCEPT !.vals = Some(Tail(Unwrap(it.vals)))], read,
                       Some(Ok(Head(Unwrap(it.vals)))))
         ELSE ZoomIntervalIter_next(f, info, read, [it EXCEPT !.vals = None])
    ELSE IF it.blocks = <<>> THEN Returned(it, read, None)
    ELSE ZoomIntervalIter_fetched(f, info, [it EXCEPT !.blocks = Tail(it.blocks)],
            get_zoom_block_values(f, info, read, Head(it.blocks), it.known_offset,
                                  it.expected_chrom, it.start, it.end))

\* IntervalIter {bbifile, known_offset: 0, blocks, vals: None, expected_chrom, start, end}
\* and ZoomIntervalIter::new, whose chrom is kept in the same field
NewIter(struct, blocks, chrom, start, end) ==
    [struct |-> struct, known_offset |-> 0, blocks |-> blocks, vals |-> None,
     expected_chrom |-> chrom, start |-> start, end |-> end]

\* BigBedRead::get_interval and get_interval_move: the same body
get_interval(f, info, read, chrom_name, start, end) ==
    CHOOSE r \in
        {IF ~found.result.ok
         THEN [result |-> found.result, read |-> found.read, iter |-> Idle, blocks |-> <<>>]
         ELSE [result |-> Ok("IntervalIter"), read |-> found.read,
               iter |-> NewIter("IntervalIter", found.result.val,
                                chrom_id(info.chrom_info, chrom_name).val, start, end),
               blocks |-> found.result.val]
         : found \in {get_overlapping_blocks(f, info, read, chrom_name, start, end)}} : TRUE

RECURSIVE find_zoom_header(_, _)
RECURSIVE find_zoom_header_last(_, _)

\* A slip: the last header of the level is taken.
find_zoom_header_last(zoom_headers, reduction_level) ==
    IF zoom_headers = <<>> THEN None
    ELSE IF IsSome(find_zoom_header_last(Tail(zoom_headers), reduction_level))
    THEN find_zoom_header_last(Tail(zoom_headers), reduction_level)
    ELSE IF Head(zoom_headers).reduction_level = reduction_level THEN Some(Head(zoom_headers))
    ELSE None

\* zoom_headers.iter().find(|h| h.reduction_level == reduction_level)
find_zoom_header(zoom_headers, reduction_level) ==
    IF zoom_headers = <<>> THEN None
    ELSE IF Head(zoom_headers).reduction_level = reduction_level THEN Some(Head(zoom_headers))
    ELSE find_zoom_header(Tail(zoom_headers), reduction_level)

zoom_search(f, info, read, index_offset, chrom, chrom_name, start, end) ==
    CHOOSE r \in
        {IF ~found.result.ok
         THEN [result |-> found.result, read |-> found.read, iter |-> Idle, blocks |-> <<>>]
         ELSE [result |-> Ok("ZoomIntervalIter"), read |-> found.read,
               iter |-> NewIter("ZoomIntervalIter", found.result.val, chrom, start, end),
               blocks |-> found.result.val]
         : found \in {search_cir_tree(f, info, read, index_offset, chrom_name, start, end)}} : TRUE

\* BigBedRead::get_zoom_interval
get_zoom_interval(f, info, read, chrom_name, start, end, reduction_level) ==
    LET chrom == chrom_id(info.chrom_info, chrom_name)
        zoom_header == find_zoom_header(info.zoom_headers, reduction_level)
    IN  IF ~chrom.ok
        THEN [result |-> chrom, read |-> read, iter |-> Idle, blocks |-> <<>>]
        ELSE IF ~IsSome(zoom_header)
        THEN [result |-> ErrOf(ReductionLevelNotFound), read |-> read, iter |-> Idle,
              blocks |-> <<>>]
        ELSE zoom_search(f, info, read, Unwrap(zoom_header).index_offset, chrom.val,
                         chrom_name, start, end)

(***************************************************************************)
(* SpecRead: one range query on a file of two data blocks per index, the    *)
(* full index and one zoom level of the same shape, and the calls of next() *)
(* until None.                                                              *)
(***************************************************************************)

\* coordinates of the records and of the queries are 0..MaxBase
MaxBase == 2

\* struct ChromInfo {name, length, id}
ChromInfos ==
    <<[name |-> "chr1", length |-> MaxBase, id |-> 0],
      [name |-> "chr2", length |-> MaxBase, id |-> 1]>>

ChromNames == {"chr1", "chr2", "chrZZ"}

\* the zoom level of the file, and one it does not have
ReductionLevels == {10, 40}

Rec(c, p) == [chrom_id |-> c, start |-> p[1], end |-> p[2]]

\* What a data block holds: one record, two sorted records of one chromosome,
\* or (a file of another producer) the same interval on two chromosomes.
BlockContents ==
    {<<Rec(c, p)>> : c \in {0, 1}, p \in Intervals(MaxBase)}
    \cup {<<Rec(c, p), Rec(c, q)>> : c \in {0, 1},
            <<p, q>> \in {pq \in Intervals(MaxBase) \X Intervals(MaxBase) : pq[1][2] <= pq[2][1]}}
    \cup {<<Rec(0, p), Rec(1, p)>> : p \in Intervals(MaxBase)}

\* the records of block k as stored: rest names the record
Stored(records, k) ==
    [i \in 1..Len(records) |->
        [chrom_id |-> records[i].chrom_id, start |-> records[i].start,
         end |-> records[i].end, rest |-> <<k, i>>]]

\* the bounding box of records, as an index entry pointing at offset
Bounding(records, offset, size) ==
    LET idx == 1..Len(records)
        lo == CHOOSE i \in idx : \A j \in idx :
                compare_position(records[i].chrom_id, records[i].start,
                                 records[j].chrom_id, records[j].start) <= 0
        hi == CHOOSE i \in idx : \A j \in idx :
                compare_position(records[i].chrom_id, records[i].end,
                                 records[j].chrom_id, records[j].end) >= 0
    IN  [start_chrom_ix |-> records[lo].chrom_id, start_base |-> records[lo].start,
         end_chrom_ix |-> records[hi].chrom_id, end_base |-> records[hi].end,
         data_offset |-> offset, data_size |-> size]

Leaf(entries) == [isleaf |-> 1, entries |-> entries]
Internal(entries) == [isleaf |-> 0, entries |-> entries]

IndexLayouts == {"leaf", "two", "three", "last"}

\* The nodes of an index whose header is at offset `at` (the root follows the
\* 48 bytes of the header), over blocks b1 and b2 at offsets o1 and o2, sized
\* 4 + 32 * count (leaf) and 4 + 24 * count (internal):
\*   leaf:  the root is a leaf of both blocks
\*   two:   root -> leaf(b1), leaf(b2)
\*   three: root -> internal -> leaf(b1), leaf(b2)
\*   last:  as three, the inner internal node written after its leaves
IndexNodes(layout, at, b1, o1, b2, o2, size) ==
    LET root == at + 48
        e1 == Bounding(b1, o1, size)
        e2 == Bounding(b2, o2, size)
        both(child) == Bounding(b1 \o b2, child, 0)
    IN  CASE layout = "leaf" ->
                (root :> Leaf(<<e1, e2>>))
          [] layout = "two" ->
                (root :> Internal(<<Bounding(b1, root + 52, 0), Bounding(b2, root + 88, 0)>>))
                @@ (root + 52 :> Leaf(<<e1>>)) @@ (root + 88 :> Leaf(<<e2>>))
          [] layout = "three" ->
                (root :> Internal(<<both(root + 28)>>))
                @@ (root + 28 :> Internal(<<Bounding(b1, root + 80, 0), Bounding(b2, root + 116, 0)>>))
                @@ (root + 80 :> Leaf(<<e1>>)) @@ (root + 116 :> Leaf(<<e2>>))
          [] layout = "last" ->
                (root :> Internal(<<both(root + 100)>>))
                @@ (root + 28 :> Leaf(<<e1>>)) @@ (root + 64 :> Leaf(<<e2>>))
                @@ (root + 100 :> Internal(<<Bounding(b1, root + 28, 0), Bounding(b2, root + 64, 0)>>))

\* the offset after the last node of the index
IndexEnd(layout, at) ==
    IF layout = "leaf" THEN at + 48 + 68
    ELSE IF layout = "two" THEN at + 48 + 124
    ELSE at + 48 + 152

\* block k is unreadable ("io") or does not decompress ("zlib"); k = 0: no fault
Faults == {[block |-> 0, kind |-> "none"]}
          \cup {[block |-> k, kind |-> kind] : k \in {1, 2}, kind \in {"io", "zlib"}}

FaultOf(fault, k) == IF fault.block = k THEN fault.kind ELSE "none"

\* The bytes of a file: data blocks at 10 and 20, the blocks of the zoom level
\* at 30 and 40 over the same coordinates, the index of the zoom level at 100,
\* the full index at 300 and to the end of the file.
FileOf(b1, b2, layout, fault) ==
    [blocks |->
        (10 :> [records |-> Stored(b1, 1), fault |-> FaultOf(fault, 1)])
        @@ (20 :> [records |-> Stored(b2, 2), fault |-> FaultOf(fault, 2)])
        @@ (30 :> [records |-> Stored(b1, 1), fault |-> FaultOf(fault, 1)])
        @@ (40 :> [records |-> Stored(b2, 2), fault |-> FaultOf(fault, 2)]),
     nodes |-> IndexNodes(layout, 100, b1, 30, b2, 40, 10)
               @@ IndexNodes(layout, 300, b1, 10, b2, 20, 10),
     len |-> IndexEnd(layout, 300)]

\* what read_info leaves in BigBedRead.info
InfoOf ==
    [chrom_info |-> ChromInfos,
     header |-> [full_index_offset |-> 300, uncompress_buf_size |-> 32768],
     zoom_headers |-> <<[reduction_level |-> 10, index_offset |-> 100]>>]

NoQuery ==
    [pc |-> "open", call |-> "", chrom_name |-> "", start |-> 0, end |-> 0,
     reduction_level |-> 0, result |-> Ok(""), blocks |-> <<>>, items |-> <<>>]

\* every layout without a fault; a fault is put in the files whose index is one node
ReadInit ==
    /\ file \in {FileOf(b1, b2, layout, [block |-> 0, kind |-> "none"]) :
                    b1 \in BlockContents, b2 \in BlockContents, layout \in IndexLayouts}
                \cup {FileOf(b1, b2, "leaf", fault) :
                    b1 \in BlockContents, b2 \in BlockContents, fault \in Faults}
    /\ bbifile = [info |-> InfoOf, read |-> [pos |-> 0, reads |-> 0]]
    /\ interval_iter = Idle
    /\ query = NoQuery
    /\ MergeIntoIdle
    /\ MergeIdle
    /\ FillIdle
    /\ WriteIdle
    /\ HarnessIdle

\* the caller's view after a query call
Asked(call, chrom_name, start, end, r) ==
    [pc |-> IF r.result.ok THEN "iterating" ELSE "failed",
     call |-> call, chrom_name |-> chrom_name, start |-> start, end |-> end,
     reduction_level |-> 0, result |-> r.result, blocks |-> r.blocks, items |-> <<>>]

GetInterval ==
    /\ query.pc = "open"
    /\ \E chrom_name \in ChromNames, p \in Intervals(MaxBase) :
        \E r \in {get_interval(file, bbifile.info, bbifile.read, chrom_name, p[1], p[2])} :
            /\ bbifile' = [bbifile EXCEPT !.read = r.read]
            /\ interval_iter' = r.iter
            /\ query' = Asked("get_interval", chrom_name, p[1], p[2], r)
    /\ UNCHANGED <<mi, mergeVars, fillVars, file, groups, harnessVars>>

GetIntervalMove ==
    /\ query.pc = "open"
    /\ \E chrom_name \in ChromNames, p \in Intervals(MaxBase) :
        \E r \in {get_interval(file, bbifile.info, bbifile.read, chrom_name, p[1], p[2])} :
            /\ bbifile' = [bbifile EXCEPT !.read = r.read]
            /\ interval_iter' = r.iter
            /\ query' = Asked("get_interval_move", chrom_name, p[1], p[2], r)
    /\ UNCHANGED <<mi, mergeVars, fillVars, file, groups, harnessVars>>

GetZoomInterval ==
    /\ query.pc = "open"
    /\ \E chrom_name \in ChromNames, p \in Intervals(MaxBase), reduction_level \in ReductionLevels :
        \E r \in {get_zoom_interval(file, bbifile.info, bbifile.read, chrom_name, p[1], p[2],
                                    reduction_level)} :
            /\ bbifile' = [bbifile EXCEPT !.read = r.read]
            /\ interval_iter' = r.iter
            /\ query' = [Asked("get_zoom_interval", chrom_name, p[1], p[2], r)
                            EXCEPT !.reduction_level = reduction_level]
    /\ UNCHANGED <<mi, mergeVars, fillVars, file, groups, harnessVars>>

\* the caller's view after one call of next()
Got(r) ==
    [query EXCEPT
        !.pc = IF r.panic THEN "panicked" ELSE IF IsSome(r.item) THEN "iterating" ELSE "done",
        !.items = IF IsSome(r.item) THEN Append(@, Unwrap(r.item)) ELSE @]

IntervalIterNext ==
    /\ query.pc = "iterating"
    /\ interval_iter.struct = "IntervalIter"
    /\ \E r \in {IntervalIter_next(file, bbifile.info, bbifile.read, interval_iter)} :
        /\ bbifile' = [bbifile EXCEPT !.read = r.read]
        /\ interval_iter' = r.it
        /\ query' = Got(r)
    /\ UNCHANGED <<mi, mergeVars, fillVars, file, groups, harnessVars>>

ZoomIntervalIterNext ==
    /\ query.pc = "iterating"
    /\ interval_iter.struct = "ZoomIntervalIter"
    /\ \E r \in {ZoomIntervalIter_next(file, bbifile.info, bbifile.read, interval_iter)} :
        /\ bbifile' = [bbifile EXCEPT !.read = r.read]
        /\ interval_iter' = r.it
        /\ query' = Got(r)
    /\ UNCHANGED <<mi, mergeVars, fillVars, file, groups, harnessVars>>

ReadNext ==
    \/ GetInterval
    \/ GetIntervalMove
    \/ GetZoomInterval
    \/ IntervalIterNext
    \/ ZoomIntervalIterNext

SpecRead == ReadInit /\ [][ReadNext]_vars

\* a query that returned an iterator
Answered == query.pc \in {"iterating", "done", "panicked"}

\* the chromosome id of the query's name
QueryChrom == chrom_id(bbifile.info.chrom_info, query.chrom_name)

\* the record of the file a returned BedEntry was decoded from
StoredRecord(entry) == file.blocks[10 * entry.rest[1]].records[entry.rest[2]]

\* the chromosome of a returned record
ChromOf(val) ==
    IF query.call = "get_zoom_interval" THEN val.chrom ELSE StoredRecord(val).chrom_id

\* C3: every record a range query (c, s, e) returns is of chromosome c, ends
\* after s and starts before e; a record that only touches s or e is not
\* returned.
C3_ReturnedRecordsOverlapStrictly ==
    Answered =>
        \A i \in 1..Len(query.items) :
            query.items[i].ok =>
                /\ ChromOf(query.items[i].val) = QueryChrom.val
                /\ query.items[i].val.end > query.start
                /\ query.items[i].val.start < query.end

\* the data blocks the searched index is over
IndexedBlocks ==
    IF query.call = "get_zoom_interval" THEN {Block(30, 10), Block(40, 10)}
    ELSE {Block(10, 10), Block(20, 10)}

\* a block holds a record of the query's chromosome that shares a base with it
HoldsOverlapping(block) ==
    \E i \in 1..Len(file.blocks[block.offset].records) :
        /\ file.blocks[block.offset].records[i].chrom_id = QueryChrom.val
        /\ file.blocks[block.offset].records[i].end > query.start
        /\ file.blocks[block.offset].records[i].start < query.end

Range(seq) == {seq[i] : i \in 1..Len(seq)}

\* C4: whatever the depth of the index and the overlap of its leaf bounds,
\* every block holding a record that overlaps the query is in the list the
\* search returns.
C4_SearchHasNoFalseNegatives ==
    Answered =>
        \A block \in IndexedBlocks :
            HoldsOverlapping(block) => block \in Range(query.blocks)

\* a search through three levels that returns one of the two blocks, the one
\* with the overlapping record
C4_Witness ==
    /\ query.pc = "done"
    /\ query.call = "get_interval_move"
    /\ file.nodes[348].isleaf = 0
    /\ 376 \in DOMAIN file.nodes
    /\ file.nodes[376].isleaf = 0
    /\ Len(query.blocks) = 1
    /\ HoldsOverlapping(query.blocks[1])
    /\ Len(query.items) = 1

\* C5: a query for a chromosome the file does not have returns
\* InvalidChromosome with that name, no iterator and no record, and reads
\* nothing from the file.
C5_UnknownChromosomeReadsNothing ==
    (query.pc # "open" /\ ~QueryChrom.ok) =>
        /\ query.pc = "failed"
        /\ query.result = ErrOf(InvalidChromosome(query.chrom_name))
        /\ interval_iter = Idle
        /\ query.items = <<>>
        /\ bbifile.read = [pos |-> 0, reads |-> 0]

C5_Witness ==
    /\ query.pc = "failed"
    /\ query.call = "get_interval"
    /\ query.chrom_name = "chrZZ"
    /\ query.result = ErrOf(InvalidChromosome("chrZZ"))

\* the block the last call of next() fetched
LastFetched == query.blocks[Len(query.blocks) - Len(interval_iter.blocks)]

\* what the caller is to see of a block: one Err for a block that fails, else
\* its records that pass the reader's filter
RECURSIVE SeenRecords(_)
SeenRecords(records) ==
    IF records = <<>> THEN <<>>
    ELSE (IF /\ Head(records).chrom_id = QueryChrom.val
             /\ Head(records).end >= query.start
             /\ Head(records).start <= query.end
          THEN <<[ok |-> TRUE, start |-> Head(records).start, end |-> Head(records).end]>>
          ELSE <<>>) \o SeenRecords(Tail(records))

RECURSIVE SeenBlocks(_)
SeenBlocks(blocks) ==
    IF blocks = <<>> THEN <<>>
    ELSE (IF file.blocks[Head(blocks).offset].fault # "none"
          THEN <<[ok |-> FALSE, start |-> 0, end |-> 0]>>
          ELSE SeenRecords(file.blocks[Head(blocks).offset].records))
         \o SeenBlocks(Tail(blocks))

SeenItems(items) ==
    [i \in 1..Len(items) |->
        IF items[i].ok
        THEN [ok |-> TRUE, start |-> items[i].val.start, end |-> items[i].val.end]
        ELSE [ok |-> FALSE, start |-> 0, end |-> 0]]

\* C6: a block that cannot be read or does not decompress is the next item,
\* an Err; the process does not abort, and the calls that follow return the
\* records of the remaining blocks in order.
C6_BlockFailureIsAnErrItem ==
    /\ (query.pc = "panicked" => file.blocks[LastFetched.offset].fault = "none")
    /\ (query.pc = "done" => SeenItems(query.items) = SeenBlocks(query.blocks))

(***************************************************************************)
(* bin/bigwigaverageoverbed.rs, the parallel path (nthreads > 1): the work  *)
(* of every chromosome of the bed index is queued with the sender of its    *)
(* own bounded(1) channel; the threads and the main thread take work, the   *)
(* main thread drains the receivers in the order of the index.              *)
(***************************************************************************)

\* chromosomes in the index of the input bed
NChroms == 3

\* the --nthreads option: the main thread and nthreads - 1 spawned threads
nthreads == 3

Workers == 1..(nthreads - 1)

NoTask == [chrom |-> 0, result_sender |-> 0]

\* A slip: the newest receiver is taken first.
pop_back(deque) ==
    [item |-> deque[Len(deque)], rest |-> SubSeq(deque, 1, Len(deque) - 1)]

\* VecDeque::pop_front on a deque that is not empty
pop_front(deque) == [item |-> Head(deque), rest |-> Tail(deque)]

\* process_chrom: Ok(tmp), the file with the lines of that chromosome, or Err
process_chrom(chrom) == {[ok |-> TRUE, tmp |-> chrom], [ok |-> FALSE, tmp |-> 0]}

\* Sender::send on a bounded(1) channel that gets one message: Err once the
\* receiver is dropped; the sender is dropped after the call
send(channels, k, msg) ==
    IF channels[k].receiver
    THEN [ok |-> TRUE,
          channels |-> [channels EXCEPT ![k].buf = Append(@, msg), ![k].sender = FALSE]]
    ELSE [ok |-> FALSE, channels |-> [channels EXCEPT ![k].sender = FALSE]]

\* the receivers still in chrom_data, and the one in hand, are dropped
DropReceivers(channels) ==
    [k \in DOMAIN channels |-> [channels[k] EXCEPT !.receiver = FALSE]]

\* the state at line 198: the work is queued, chrom_data_sender is dropped, the
\* threads are spawned
HarnessInit ==
    /\ \E n \in 1..NChroms :
        /\ chrom_data = [i \in 1..n |-> i]
        /\ chrom_data_channel = [i \in 1..n |-> [chrom |-> i, result_sender |-> i]]
        /\ result_channels = [i \in 1..n |-> [buf |-> <<>>, sender |-> TRUE, receiver |-> TRUE]]
    /\ threads = [t \in Workers |-> [pc |-> "recv", task |-> NoTask]]
    /\ main_thread = [pc |-> "pop", result_receiver |-> 0, task |-> NoTask, wait |-> FALSE,
                      returned |-> "running"]
    /\ bedoutwriter = <<>>
    /\ completed = <<>>
    /\ MergeIntoIdle
    /\ MergeIdle
    /\ FillIdle
    /\ ReadIdle
    /\ WriteIdle

otherVars == <<mi, mergeVars, fillVars, readVars, groups>>

\* a wrong recv, which hands out the next work without taking it off the channel
ThreadRecv_peek(t) ==
    /\ main_thread.pc # "exited"
    /\ threads[t].pc = "recv"
    /\ chrom_data_channel # <<>>
    /\ threads' = [threads EXCEPT ![t] = [pc |-> "process", task |-> Head(chrom_data_channel)]]
    /\ UNCHANGED <<otherVars, chrom_data, chrom_data_channel, result_channels, main_thread,
                   bedoutwriter, completed>>

\* a spawned thread at chrom_data_receiver.recv(): the next work, or break,
\* the channel being disconnected when it is empty
ThreadRecv(t) ==
    /\ main_thread.pc # "exited"
    /\ threads[t].pc = "recv"
    /\ IF chrom_data_channel # <<>>
       THEN /\ threads' = [threads EXCEPT ![t] = [pc |-> "process", task |-> Head(chrom_data_channel)]]
            /\ chrom_data_channel' = Tail(chrom_data_channel)
       ELSE /\ threads' = [threads EXCEPT ![t] = [pc |-> "exit", task |-> NoTask]]
            /\ UNCHANGED chrom_data_channel
    /\ UNCHANGED <<otherVars, chrom_data, result_channels, main_thread, bedoutwriter, completed>>

\* a spawned thread: process_chrom, then result_sender.send(result).unwrap()
ThreadProcess(t) ==
    /\ main_thread.pc # "exited"
    /\ threads[t].pc = "process"
    /\ \E result \in process_chrom(threads[t].task.chrom) :
        \E sent \in {send(result_channels, threads[t].task.result_sender, result)} :
            /\ result_channels' = sent.channels
            /\ threads' = [threads EXCEPT ![t] =
                            [pc |-> IF sent.ok THEN "recv" ELSE "panicked", task |-> NoTask]]
            /\ completed' = IF sent.ok THEN Append(completed, threads[t].task.chrom) ELSE completed
    /\ UNCHANGED <<otherVars, chrom_data, chrom_data_channel, main_thread, bedoutwriter>>

\* main returns: Ok(()) after the loop, Err from inside it
Return(how) ==
    [pc |-> "returned", result_receiver |-> 0, task |-> NoTask, wait |-> main_thread.wait,
     returned |-> how]

\* while let Some(result_receiver) = chrom_data.pop_front()
MainPop ==
    /\ main_thread.pc = "pop"
    /\ IF chrom_data = <<>>
       THEN /\ main_thread' = Return("Ok")
            /\ UNCHANGED chrom_data
       ELSE /\ main_thread' = [main_thread EXCEPT !.pc = "try_recv", !.wait = FALSE,
                                    !.result_receiver = pop_front(chrom_data).item]
            /\ chrom_data' = pop_front(chrom_data).rest
    /\ UNCHANGED <<otherVars, chrom_data_channel, result_channels, threads, bedoutwriter, completed>>

\* Ok(result) with a copy that puts the temporary file before what the output
\* already holds
Received_prepends ==
    IF ~Head(result_channels[main_thread.result_receiver].buf).ok
    THEN /\ main_thread' = Return("Err")
         /\ result_channels' = DropReceivers(result_channels)
         /\ UNCHANGED bedoutwriter
    ELSE /\ main_thread' = [main_thread EXCEPT !.pc = "pop", !.result_receiver = 0]
         /\ result_channels' = [result_channels EXCEPT
                                    ![main_thread.result_receiver].buf = <<>>,
                                    ![main_thread.result_receiver].receiver = FALSE]
         /\ bedoutwriter' = <<Head(result_channels[main_thread.result_receiver].buf).tmp>>
                                \o bedoutwriter

\* Ok(result): result?, then the temporary file is copied to the output
Received ==
    IF ~Head(result_channels[main_thread.result_receiver].buf).ok
    THEN /\ main_thread' = Return("Err")
         /\ result_channels' = DropReceivers(result_channels)
         /\ UNCHANGED bedoutwriter
    ELSE /\ main_thread' = [main_thread EXCEPT !.pc = "pop", !.result_receiver = 0]
         /\ result_channels' = [result_channels EXCEPT
                                    ![main_thread.result_receiver].buf = <<>>,
                                    ![main_thread.result_receiver].receiver = FALSE]
         /\ bedoutwriter' = Append(bedoutwriter,
                                   Head(result_channels[main_thread.result_receiver].buf).tmp)

\* Err(Disconnected): return Err
Disconnected ==
    /\ main_thread' = Return("Err")
    /\ result_channels' = DropReceivers(result_channels)
    /\ UNCHANGED bedoutwriter

\* result_receiver.try_recv()
MainTryRecv ==
    /\ main_thread.pc = "try_recv"
    /\ IF result_channels[main_thread.result_receiver].buf # <<>> THEN Received
       ELSE IF ~result_channels[main_thread.result_receiver].sender THEN Disconnected
       ELSE /\ main_thread' = [main_thread EXCEPT !.pc = "take"]
            /\ UNCHANGED <<result_channels, bedoutwriter>>
    /\ UNCHANGED <<otherVars, chrom_data, chrom_data_channel, threads, completed>>

\* a wrong recv of the main thread, which leaves the work it takes on the
\* channel
MainTake_peek ==
    /\ main_thread.pc = "take"
    /\ IF chrom_data_channel # <<>>
       THEN main_thread' = [main_thread EXCEPT !.pc = "process", !.task = Head(chrom_data_channel)]
       ELSE main_thread' = [main_thread EXCEPT !.pc = "recv", !.wait = TRUE]
    /\ UNCHANGED <<otherVars, chrom_data, chrom_data_channel, result_channels, threads,
                   bedoutwriter, completed>>

\* Err(TryRecvError::Empty): chrom_data_receiver.recv(), wait = true when no
\* work is left
MainTake ==
    /\ main_thread.pc = "take"
    /\ IF chrom_data_channel # <<>>
       THEN /\ main_thread' = [main_thread EXCEPT !.pc = "process", !.task = Head(chrom_data_channel)]
            /\ chrom_data_channel' = Tail(chrom_data_channel)
       ELSE /\ main_thread' = [main_thread EXCEPT !.pc = "recv", !.wait = TRUE]
            /\ UNCHANGED chrom_data_channel
    /\ UNCHANGED <<otherVars, chrom_data, result_channels, threads, bedoutwriter, completed>>

\* the main thread: process_chrom, then result_sender.send(result).unwrap()
MainProcess ==
    /\ main_thread.pc = "process"
    /\ \E result \in process_chrom(main_thread.task.chrom) :
        \E sent \in {send(result_channels, main_thread.task.result_sender, result)} :
            /\ result_channels' = sent.channels
            /\ main_thread' = [main_thread EXCEPT
                                !.pc = IF sent.ok THEN "try_recv" ELSE "panicked",
                                !.task = NoTask]
            /\ completed' = IF sent.ok THEN Append(completed, main_thread.task.chrom) ELSE completed
    /\ UNCHANGED <<otherVars, chrom_data, chrom_data_channel, threads, bedoutwriter>>

\* a recv that returns only when a result arrives, whatever becomes of the
\* sender
MainRecv_needs_result ==
    /\ main_thread.pc = "recv"
    /\ result_channels[main_thread.result_receiver].buf # <<>>
    /\ Received
    /\ UNCHANGED <<otherVars, chrom_data, chrom_data_channel, threads, completed>>

\* result_receiver.recv(), which blocks while the channel is empty and its
\* sender alive
MainRecv ==
    /\ main_thread.pc = "recv"
    /\ \/ result_channels[main_thread.result_receiver].buf # <<>>
       \/ ~result_channels[main_thread.result_receiver].sender
    /\ IF result_channels[main_thread.result_receiver].buf # <<>> THEN Received
       ELSE Disconnected
    /\ UNCHANGED <<otherVars, chrom_data, chrom_data_channel, threads, completed>>

\* main has returned (or panicked): the process exits, which ends the spawned
\* threads wherever they are; nothing joins them before
ProcessExit ==
    /\ main_thread.pc \in {"returned", "panicked"}
    /\ main_thread' = [main_thread EXCEPT !.pc = "exited"]
    /\ UNCHANGED <<otherVars, chrom_data, chrom_data_channel, result_channels, threads,
                   bedoutwriter, completed>>

HarnessNext ==
    \/ \E t \in Workers : ThreadRecv(t)
    \/ \E t \in Workers : ThreadProcess(t)
    \/ MainPop
    \/ MainTryRecv
    \/ MainTake
    \/ MainProcess
    \/ MainRecv
    \/ ProcessExit

SpecHarness == HarnessInit /\ [][HarnessNext]_vars

\* C9: the results are copied to the output in the order of the chromosomes
\* in the bed index, however the threads interleave and in whatever order the
\* chromosomes are completed.
C9_OutputInIndexOrder ==
    /\ \A i \in 1..Len(bedoutwriter) : bedoutwriter[i] = i
    /\ (main_thread.returned = "Ok" => Len(bedoutwriter) = Len(result_channels))

\* three chromosomes completed last to first, copied first to last
C9_Witness ==
    /\ main_thread.returned = "Ok"
    /\ completed = <<3, 2, 1>>
    /\ bedoutwriter = <<1, 2, 3>>

(***************************************************************************)
(* tests/bigwigwrite.rs: a bedGraph written with BigWigWrite::write_groups  *)
(* and read back with BigWigRead::get_interval. The writer and the bigWig   *)
(* section follow the file format and the writer pipeline as documented     *)
(* (sections of items_per_slot records, an R-tree of block_size entries per *)
(* node built bottom-up and laid out root first); the search of the index   *)
(* and the fetch of a block are the reader's code above.                    *)
(***************************************************************************)

\* BigWigWriteOptions.items_per_slot (1024 by default), scaled down
items_per_slot == 2

\* BigWigWriteOptions.block_size (256 by default), scaled down
block_size == 2

\* the length of every chromosome of chrom_map
WriteMaxBase == 3

\* the values of the bedGraph, in units
WriteValues == {-1, 2}

WriteChroms == <<"chr1", "chr2">>

RECURSIVE SumSeq(_)
SumSeq(ns) == IF ns = <<>> THEN 0 ELSE Head(ns) + SumSeq(Tail(ns))

\* a sequence cut into runs of n items, the last one shorter
RECURSIVE Chunks(_, _)
Chunks(seq, n) ==
    IF seq = <<>> THEN <<>>
    ELSE IF Len(seq) <= n THEN <<seq>>
    ELSE <<SubSeq(seq, 1, n)>> \o Chunks(SubSeq(seq, n + 1, Len(seq)), n)

\* the sections of one chromosome: its records with the chrom_id of the header
ChromSections(id, values) ==
    Chunks([i \in 1..Len(values) |->
                [chrom_id |-> id, start |-> values[i].start, end |-> values[i].end,
                 value |-> values[i].value]],
           items_per_slot)

\* the sections of the file in the order written; ids follow the stream
RECURSIVE Sections(_, _)
Sections(gs, id) ==
    IF gs = <<>> THEN <<>>
    ELSE ChromSections(id, Head(gs).values) \o Sections(Tail(gs), id + 1)

\* a bedGraph section: 24 bytes of header, 12 bytes per record
SectionSize(section) == 24 + 12 * Len(section)

\* where section k is written, the data starting at offset 64
SectionOffset(sections, k) ==
    64 + SumSeq([i \in 1..(k - 1) |-> SectionSize(sections[i])])

\* a node of the index: 4 bytes of header, 32 bytes per leaf entry, 24 per
\* internal entry
NodeSize(isleaf, entries) == 4 + Len(entries) * (IF isleaf = 1 THEN 32 ELSE 24)

\* the bounds of a node's entries, as the entry of its parent
Enclosing(entries, child) ==
    LET idx == 1..Len(entries)
        lo == CHOOSE i \in idx : \A j \in idx :
                compare_position(entries[i].start_chrom_ix, entries[i].start_base,
                                 entries[j].start_chrom_ix, entries[j].start_base) <= 0
        hi == CHOOSE i \in idx : \A j \in idx :
                compare_position(entries[i].end_chrom_ix, entries[i].end_base,
                                 entries[j].end_chrom_ix, entries[j].end_base) >= 0
    IN  [start_chrom_ix |-> entries[lo].start_chrom_ix, start_base |-> entries[lo].start_base,
         end_chrom_ix |-> entries[hi].end_chrom_ix, end_base |-> entries[hi].end_base,
         data_offset |-> child, data_size |-> 0]

\* The levels of the tree, the root's first and the leaves' last; a level is
\* the sequence of its nodes, a node the sequence of its entries; the entry of
\* an internal node holds the number of its child in the level below.
RECURSIVE TreeLevels(_)
TreeLevels(level) ==
    IF Len(level) <= 1 THEN <<level>>
    ELSE TreeLevels(Chunks([j \in 1..Len(level) |-> Enclosing(level[j], j)], block_size))
         \o <<level>>

IsLeafLevel(levels, l) == IF l = Len(levels) THEN 1 ELSE 0

LevelSize(levels, l) ==
    SumSeq([j \in 1..Len(levels[l]) |-> NodeSize(IsLeafLevel(levels, l), levels[l][j])])

\* the nodes are written level by level from the root, at `root`
NodeOffset(levels, l, j, root) ==
    root + SumSeq([m \in 1..(l - 1) |-> LevelSize(levels, m)])
         + SumSeq([i \in 1..(j - 1) |-> NodeSize(IsLeafLevel(levels, l), levels[l][i])])

WrittenNode(levels, l, j, root) ==
    IF l = Len(levels) THEN Leaf(levels[l][j])
    ELSE Internal([i \in 1..Len(levels[l][j]) |->
                    [levels[l][j][i] EXCEPT
                        !.data_offset = NodeOffset(levels, l + 1, levels[l][j][i].data_offset, root)]])

\* the index as the map from offset to node
WrittenNodes(levels, root) ==
    LET places == UNION {{<<l, j>> : j \in 1..Len(levels[l])} : l \in 1..Len(levels)}
        offsets == {NodeOffset(levels, lj[1], lj[2], root) : lj \in places}
    IN  [o \in offsets |->
            LET lj == CHOOSE x \in places : NodeOffset(levels, x[1], x[2], root) = o
            IN  WrittenNode(levels, lj[1], lj[2], root)]

\* BigWigWrite::write_groups: the file, with what its header and chromosome
\* tree say in info
write_groups(gs) ==
    LET sections == Sections(gs, 0)
        entries == [k \in 1..Len(sections) |->
                        Bounding(sections[k], SectionOffset(sections, k), SectionSize(sections[k]))]
        index == SectionOffset(sections, Len(sections) + 1)
        levels == TreeLevels(Chunks(entries, block_size))
    IN  [blocks |-> [o \in {SectionOffset(sections, k) : k \in 1..Len(sections)} |->
                        [records |-> sections[CHOOSE k \in 1..Len(sections) :
                                                SectionOffset(sections, k) = o],
                         fault |-> "none"]],
         nodes |-> WrittenNodes(levels, index + 48),
         len |-> NodeOffset(levels, Len(levels), Len(levels[Len(levels)]) + 1, index + 48),
         info |-> [chrom_info |-> [i \in 1..Len(gs) |->
                                    [name |-> gs[i].chrom, length |-> WriteMaxBase, id |-> i - 1]],
                   header |-> [full_index_offset |-> index,
                               uncompress_buf_size |-> 24 + 12 * items_per_slot],
                   zoom_headers |-> <<>>]]

\* the records of a bigWig section that pass the filter of the query
RECURSIVE bigwig_values(_, _, _, _)
bigwig_values(data, chrom, start, end) ==
    IF data = <<>> THEN <<>>
    ELSE (IF Head(data).chrom_id = chrom /\ Head(data).end > start /\ Head(data).start < end
          THEN <<Value(Head(data).start, Head(data).end, Head(data).value)>>
          ELSE <<>>) \o bigwig_values(Tail(data), chrom, start, end)

get_block_values(f, info, read, block, known_offset, chrom, start, end) ==
    CHOOSE r \in
        {IF d.status # "Ok"
         THEN [status |-> d.status, entries |-> <<>>, known_offset |-> known_offset, read |-> d.read]
         ELSE [status |-> "Ok",
               entries |-> bigwig_values(d.data, chrom, start, end),
               known_offset |-> block.offset + block.size,
               read |-> d.read]
         : d \in {get_block_data(f, info, read, block, known_offset)}} : TRUE

RECURSIVE BigWigIntervalIter_next(_, _, _, _)
BigWigIntervalIter_fetched(f, info, it, got) ==
    IF got.status = "panic" THEN Panicked(it, got.read)
    ELSE IF got.status = "Err" THEN Returned(it, got.read, Some(ErrOf(IoError)))
    ELSE BigWigIntervalIter_next(f, info, got.read,
            [it EXCEPT !.vals = Some(got.entries), !.known_offset = got.known_offset])

\* the iterator of BigWigRead::get_interval: blocks in order, one at a time
BigWigIntervalIter_next(f, info, read, it) ==
    IF IsSome(it.vals)
    THEN IF Unwrap(it.vals) # <<>>
         THEN Returned([it EXCEPT !.vals = Some(Tail(Unwrap(it.vals)))], read,
                       Some(Ok(Head(Unwrap(it.vals)))))
         ELSE BigWigIntervalIter_next(f, info, read, [it EXCEPT !.vals = None])
    ELSE IF it.blocks = <<>> THEN Returned(it, read, None)
    ELSE BigWigIntervalIter_fetched(f, info, [it EXCEPT !.blocks = Tail(it.blocks)],
            get_block_values(f, info, read, Head(it.blocks), it.known_offset,
                             it.expected_chrom, it.start, it.end))

\* BigWigRead::get_interval
bigwig_get_interval(f, info, read, chrom_name, start, end) ==
    CHOOSE r \in
        {IF ~found.result.ok
         THEN [result |-> found.result, read |-> found.read, iter |-> Idle, blocks |-> <<>>]
         ELSE [result |-> Ok("BigWigIntervalIter"), read |-> found.read,
               iter |-> NewIter("BigWigIntervalIter", found.result.val,
                                chrom_id(info.chrom_info, chrom_name).val, start, end),
               blocks |-> found.result.val]
         : found \in {get_overlapping_blocks(f, info, read, chrom_name, start, end)}} : TRUE

(***************************************************************************)
(* SpecRoundTrip: a sorted bedGraph is written, the file is opened, one     *)
(* chromosome is read back from 0 to its length.                            *)
(***************************************************************************)

\* the sorted, non-overlapping Value sequences over 0..maxPos
RECURSIVE SortedValuesFrom(_, _, _)
SortedValuesFrom(from, maxPos, vals) ==
    {<<>>} \cup
    UNION {{<<Value(p[1], p[2], v)>> \o rest : rest \in SortedValuesFrom(p[2], maxPos, vals)} :
            p \in {q \in Intervals(maxPos) : q[1] >= from}, v \in vals}

\* the bedGraphs: one or both chromosomes, each with at least one record
BedGraphs ==
    LET groupsOf(name) ==
            {[chrom |-> name, values |-> vs] :
                vs \in SortedValuesFrom(0, WriteMaxBase, WriteValues) \ {<<>>}}
    IN  {<<g>> : g \in groupsOf(WriteChroms[1]) \cup groupsOf(WriteChroms[2])}
        \cup {<<g1, g2>> : g1 \in groupsOf(WriteChroms[1]), g2 \in groupsOf(WriteChroms[2])}

RoundTripInit ==
    /\ groups \in BedGraphs
    /\ file = Idle
    /\ bbifile = Idle
    /\ interval_iter = Idle
    /\ query = Idle
    /\ MergeIntoIdle
    /\ MergeIdle
    /\ FillIdle
    /\ HarnessIdle

\* outb.write_groups(chrom_map, chsi)
WriteGroups ==
    /\ file = Idle
    /\ file' = write_groups(groups)
    /\ UNCHANGED <<mi, mergeVars, fillVars, bbifile, interval_iter, query, groups, harnessVars>>

\* BigWigRead::from_file_and_attach
FromFileAndAttach ==
    /\ file # Idle
    /\ bbifile = Idle
    /\ bbifile' = [info |-> file.info, read |-> [pos |-> 0, reads |-> 0]]
    /\ query' = NoQuery
    /\ UNCHANGED <<mi, mergeVars, fillVars, file, interval_iter, groups, harnessVars>>

\* bwread.get_interval(chrom, 0, length) for a chromosome of get_chroms()
BigWigGetInterval ==
    /\ bbifile # Idle
    /\ query.pc = "open"
    /\ \E i \in 1..Len(bbifile.info.chrom_info) :
        \E r \in {bigwig_get_interval(file, bbifile.info, bbifile.read,
                                      bbifile.info.chrom_info[i].name, 0,
                                      bbifile.info.chrom_info[i].length)} :
            /\ bbifile' = [bbifile EXCEPT !.read = r.read]
            /\ interval_iter' = r.iter
            /\ query' = Asked("BigWigRead::get_interval", bbifile.info.chrom_info[i].name, 0,
                              bbifile.info.chrom_info[i].length, r)
    /\ UNCHANGED <<mi, mergeVars, fillVars, file, groups, harnessVars>>

BigWigIntervalIterNext ==
    /\ query.pc = "iterating"
    /\ interval_iter.struct = "BigWigIntervalIter"
    /\ \E r \in {BigWigIntervalIter_next(file, bbifile.info, bbifile.read, interval_iter)} :
        /\ bbifile' = [bbifile EXCEPT !.read = r.read]
        /\ interval_iter' = r.it
        /\ query' = Got(r)
    /\ UNCHANGED <<mi, mergeVars, fillVars, file, groups, harnessVars>>

RoundTripNext ==
    \/ WriteGroups
    \/ FromFileAndAttach
    \/ BigWigGetInterval
    \/ BigWigIntervalIterNext

SpecRoundTrip == RoundTripInit /\ [][RoundTripNext]_vars

\* the Values of the bedGraph for the chromosome of the query
InputOf(name) == (CHOOSE i \in 1..Len(groups) : groups[i].chrom = name)

\* C10: a sorted bedGraph written with write_groups and read back with
\* get_interval(chrom, 0, chrom_length) gives, for every chromosome, exactly
\* its input records: as many, with the same start, end and value, in order.
C10_WriteThenReadReturnsInput ==
    /\ query.pc \notin {"failed", "panicked"}
    /\ (query.pc = "done" =>
            query.items = OkStream(groups[InputOf(query.chrom_name)].values))

\* three records of chr2 in two sections under two leaves of the index
C10_Witness ==
    /\ query.pc = "done"
    /\ query.chrom_name = "chr2"
    /\ Len(groups) = 2
    /\ Len(query.items) = 3
    /\ Len(query.blocks) = 2
    /\ file.nodes[file.info.header.full_index_offset + 48].isleaf = 0

(***************************************************************************)
(* SpecZoom: get_zoom_interval on readers whose list of zoom headers is any *)
(* list of up to two headers, two of the same reduction level included.     *)
(* The headers point at the index at 100 (over the blocks at 30 and 40) or  *)
(* at the index at 300 (over the blocks at 10 and 20).                      *)
(***************************************************************************)

\* struct ZoomHeader {reduction_level, data_offset, index_offset}
ZoomHeader(reduction_level, index_offset) ==
    [reduction_level |-> reduction_level, index_offset |-> index_offset]

\* the reduction levels a header can have; ReductionLevels are asked for
ZoomHeaderLevels == {10, 20, 40}

ZoomHeaders == {ZoomHeader(l, o) : l \in ZoomHeaderLevels, o \in {100, 300}}

ZoomHeaderLists ==
    {<<>>} \cup {<<h>> : h \in ZoomHeaders} \cup {<<h1, h2>> : h1 \in ZoomHeaders, h2 \in ZoomHeaders}

ZoomInit ==
    /\ file \in {FileOf(<<Rec(c1, p1)>>, <<Rec(c2, p2)>>, layout, [block |-> 0, kind |-> "none"]) :
                    c1 \in {0, 1}, p1 \in Intervals(MaxBase),
                    c2 \in {0, 1}, p2 \in Intervals(MaxBase), layout \in {"leaf", "last"}}
    /\ bbifile \in {[info |-> [InfoOf EXCEPT !.zoom_headers = zoom_headers],
                     read |-> [pos |-> 0, reads |-> 0]] : zoom_headers \in ZoomHeaderLists}
    /\ interval_iter = Idle
    /\ query = NoQuery
    /\ MergeIntoIdle
    /\ MergeIdle
    /\ FillIdle
    /\ WriteIdle
    /\ HarnessIdle

ZoomNext ==
    \/ GetZoomInterval
    \/ ZoomIntervalIterNext

SpecZoom == ZoomInit /\ [][ZoomNext]_vars

\* the positions of the headers of the asked reduction level
MatchingHeaders ==
    {i \in 1..Len(bbifile.info.zoom_headers) :
        bbifile.info.zoom_headers[i].reduction_level = query.reduction_level}

\* the first of them
FirstMatching == CHOOSE i \in MatchingHeaders : \A j \in MatchingHeaders : i <= j

\* the offsets of the data blocks under the index at an offset
BlocksUnder(index_offset) == IF index_offset = 100 THEN {30, 40} ELSE {10, 20}

\* the handle has just been left by the search of the index at an offset: it
\* stands after the header of that index and, for the index at 100, before
\* the root of the index at 300 (the last node read may be read past its end)
LeftInside(index_offset) ==
    /\ bbifile.read.reads > 0
    /\ bbifile.read.pos > index_offset + 48
    /\ (index_offset = 100 => bbifile.read.pos < 300 + 48)

\* C11: a zoom query on a known chromosome fails with ReductionLevelNotFound,
\* reading nothing, when no zoom header has exactly the asked reduction
\* level; otherwise it searches the index of the first header of that level
\* and no other: the result, the blocks and the handle are those of that one
\* search.
C11_ZoomLevelSelectsItsIndex ==
    (query.call = "get_zoom_interval" /\ query.pc # "open" /\ QueryChrom.ok) =>
        IF MatchingHeaders = {}
        THEN /\ query.pc = "failed"
             /\ query.result = ErrOf(ReductionLevelNotFound)
             /\ bbifile.read = [pos |-> 0, reads |-> 0]
        ELSE \E index_offset \in {bbifile.info.zoom_headers[FirstMatching].index_offset} :
             \E searched \in {search_cir_tree(file, bbifile.info, [pos |-> 0, reads |-> 0],
                                              index_offset, query.chrom_name,
                                              query.start, query.end)} :
                /\ query.result # ErrOf(ReductionLevelNotFound)
                /\ query.result.ok = searched.result.ok
                /\ query.blocks = (IF searched.result.ok THEN searched.result.val ELSE <<>>)
                /\ \A i \in 1..Len(query.blocks) :
                        query.blocks[i].offset \in BlocksUnder(index_offset)
                /\ (query.items = <<>> /\ query.pc \in {"iterating", "failed"}) =>
                        /\ bbifile.read = searched.read
                        /\ LeftInside(index_offset)

\* two headers of the asked level: the records come from the index of the first
C11_Witness ==
    /\ query.call = "get_zoom_interval"
    /\ query.pc = "done"
    /\ bbifile.info.zoom_headers = <<ZoomHeader(10, 300), ZoomHeader(10, 100)>>
    /\ query.reduction_level = 10
    /\ Len(query.blocks) = 2
    /\ query.blocks[1].offset = 10
    /\ Len(query.items) = 2

(***************************************************************************)
(* bbi/bbiread.rs, read_info, and BigBedRead::open: the 64 bytes of the     *)
(* header, the zoom headers, the chromosome B+-tree.  A file of this part   *)
(* keeps every field as the bytes it has on disk; a value read from them    *)
(* saturates at MaxOffset, which lies beyond every file of the model.       *)
(***************************************************************************)

MaxOffset == 1000000

\* the magic numbers, as their bytes from the most significant to the least
BIGWIG_MAGIC == <<136, 143, 252, 38>>
BIGBED_MAGIC == <<135, 137, 242, 235>>
CHROM_TREE_MAGIC == <<120, 202, 140, 145>>

\* enum BBIFileReadInfoError, BigBedReadOpenError
UnknownMagic == [kind |-> "UnknownMagic", name |-> ""]
InvalidChroms == [kind |-> "InvalidChroms", name |-> ""]
NotABigBed == [kind |-> "NotABigBed", name |-> ""]

\* u32::swap_bytes
swap_bytes(x) == [i \in 1..Len(x) |-> x[Len(x) + 1 - i]]

\* u32::to_le, u32::to_be: a no-op on a target of that byte order, the bytes
\* swapped on a target of the other
to_le(x, target_endian) == IF target_endian = "little" THEN x ELSE swap_bytes(x)
to_be(x, target_endian) == IF target_endian = "big" THEN x ELSE swap_bytes(x)

\* Buf::get_u16, get_u32, get_u64 as a number: the bytes in big-endian order
RECURSIVE get_uint(_)
get_uint(bytes) ==
    IF bytes = <<>> THEN 0
    ELSE Min(MaxOffset,
             get_uint(SubSeq(bytes, 1, Len(bytes) - 1)) * 256 + bytes[Len(bytes)])

\* the getter of the file's byte order: get_u16 or get_u16_le, and so on
get_endian(bytes, endianness) ==
    IF endianness = "Big" THEN get_uint(bytes) ELSE get_uint(swap_bytes(bytes))

\* read_info, match magic {..}: the arms in their order; magic is get_u32() of
\* the first four bytes, the value whose bytes they are in big-endian order
decide_magic(magic, target_endian) ==
    IF magic = to_le(BIGWIG_MAGIC, target_endian) THEN Some([filetype |-> "BigWig", endianness |-> "Big"])
    ELSE IF magic = to_be(BIGWIG_MAGIC, target_endian) THEN Some([filetype |-> "BigWig", endianness |-> "Little"])
    ELSE IF magic = to_le(BIGBED_MAGIC, target_endian) THEN Some([filetype |-> "BigBed", endianness |-> "Big"])
    ELSE IF magic = to_be(BIGBED_MAGIC, target_endian) THEN Some([filetype |-> "BigBed", endianness |-> "Little"])
    ELSE None

\* struct BBIHeader, of the fields of the 64 bytes that are used later
BBIHeader(f, endianness) ==
    [endianness |-> endianness,
     zoom_levels |-> get_endian(f.header.zoom_levels, endianness),
     chromosome_tree_offset |-> get_endian(f.header.chromosome_tree_offset, endianness),
     full_index_offset |-> get_endian(f.header.full_index_offset, endianness),
     uncompress_buf_size |-> get_endian(f.header.uncompress_buf_size, endianness)]

\* read_zoom_headers: zoom_levels * 24 bytes after the header
read_zoom_headers(f, read, header) ==
    LET header_data == read_exact(f, read, header.zoom_levels * 24)
    IN  IF ~header_data.ok THEN [result |-> ErrOf(IoError), read |-> header_data.read]
        ELSE [result |->
                Ok([i \in 1..header.zoom_levels |->
                    [reduction_level |-> get_endian(f.zoom_headers[i].reduction_level,
                                                    header.endianness),
                     index_offset |-> get_endian(f.zoom_headers[i].index_offset,
                                                 header.endianness)]]),
              read |-> header_data.read]

\* std::str::from_utf8 of a key: the bytes of the model are ASCII or 255
from_utf8(key) == IF \E i \in 1..Len(key) : key[i] >= 128 THEN None ELSE Some(key)

\* str::trim_matches(char::from(0)): the NULs of both ends are dropped
RECURSIVE trim_matches(_)
trim_matches(s) ==
    IF s = <<>> THEN s
    ELSE IF Head(s) = 0 THEN trim_matches(Tail(s))
    ELSE IF s[Len(s)] = 0 THEN trim_matches(SubSeq(s, 1, Len(s) - 1))
    ELSE s

\* struct ChromInfo {name, length, id}, of a leaf entry
ChromInfo(entry, endianness) ==
    [name |-> trim_matches(entry.key),
     id |-> get_endian(entry.chrom_id, endianness),
     length |-> get_endian(entry.chrom_size, endianness)]

RECURSIVE read_chrom_tree_block(_, _, _, _)
RECURSIVE read_chrom_tree_children(_, _, _, _, _)

\* read_chrom_tree_block: what is pushed to chroms by the node at the handle's
\* position and the nodes under it, or the error. The entries of a leaf
\* before one that is no UTF-8 are pushed too; the caller drops them.
read_chrom_tree_block(f, read, endianness, key_size) ==
    LET header_data == read_exact(f, read, 4)
        node == f.chroms[read.pos]
        count == get_endian(node.count, endianness)
        bytes == read_exact(f, header_data.read, (key_size + 8) * count)
    IN  IF ~header_data.ok THEN [ok |-> FALSE, chroms |-> <<>>, read |-> header_data.read]
        ELSE IF ~bytes.ok THEN [ok |-> FALSE, chroms |-> <<>>, read |-> bytes.read]
        ELSE IF node.isleaf = 1
        THEN IF \E i \in 1..count : ~IsSome(from_utf8(node.entries[i].key))
             THEN [ok |-> FALSE, chroms |-> <<>>, read |-> bytes.read]
             ELSE [ok |-> TRUE,
                   chroms |-> [i \in 1..count |-> ChromInfo(node.entries[i], endianness)],
                   read |-> bytes.read]
        ELSE read_chrom_tree_children(f, bytes.read,
                [i \in 1..count |-> get_endian(node.entries[i].child_offset, endianness)],
                endianness, key_size)

\* A slip: only the first child is read.
read_chrom_tree_first_child(f, read, children, endianness, key_size) ==
    IF children = <<>> THEN [ok |-> TRUE, chroms |-> <<>>, read |-> read]
    ELSE read_chrom_tree_block(f, seek(read, Head(children)), endianness, key_size)

\* for child in children { seek; read_chrom_tree_block(..)?; }
read_chrom_tree_children(f, read, children, endianness, key_size) ==
    IF children = <<>> THEN [ok |-> TRUE, chroms |-> <<>>, read |-> read]
    ELSE CHOOSE r \in
            {IF ~first.ok THEN first
             ELSE CHOOSE q \in
                    {[ok |-> rest.ok, chroms |-> first.chroms \o rest.chroms, read |-> rest.read] :
                        rest \in {read_chrom_tree_children(f, first.read, Tail(children),
                                                           endianness, key_size)}} : TRUE
             : first \in {read_chrom_tree_block(f, seek(read, Head(children)),
                                                endianness, key_size)}} : TRUE

\* str::cmp: the bytes compared from the first, a prefix before its extensions
RECURSIVE str_cmp(_, _)
str_cmp(s1, s2) ==
    IF s1 = <<>> /\ s2 = <<>> THEN 0
    ELSE IF s1 = <<>> THEN -1
    ELSE IF s2 = <<>> THEN 1
    ELSE IF Head(s1) < Head(s2) THEN -1
    ELSE IF Head(s1) > Head(s2) THEN 1
    ELSE str_cmp(Tail(s1), Tail(s2))

\* chrom_info.sort_by(|c1, c2| c1.name.cmp(&c2.name)): a stable sort
RECURSIVE sort_by_name(_)
sort_by_name(chroms) ==
    IF chroms = <<>> THEN <<>>
    ELSE CHOOSE r \in
            {SubSeq(sorted, 1, k) \o <<chroms[Len(chroms)]>> \o SubSeq(sorted, k + 1, Len(sorted)) :
                <<sorted, k>> \in
                    {<<s, Cardinality({i \in 1..Len(s) :
                                        str_cmp(s[i].name, chroms[Len(chroms)].name) <= 0})>> :
                        s \in {sort_by_name(SubSeq(chroms, 1, Len(chroms) - 1))}}} : TRUE

\* read_info after the header was built: the zoom headers, the header of the
\* chromosome tree, its nodes
read_info_chroms(f, read, filetype, header) ==
    LET zoom_headers == read_zoom_headers(f, read, header)
        header_data == read_exact(f, seek(zoom_headers.read, header.chromosome_tree_offset), 32)
        magic == IF header.endianness = "Big" THEN f.chrom_tree.magic
                 ELSE swap_bytes(f.chrom_tree.magic)
        key_size == get_endian(f.chrom_tree.key_size, header.endianness)
        val_size == get_endian(f.chrom_tree.val_size, header.endianness)
    IN  IF ~zoom_headers.result.ok
        THEN [status |-> "Err", result |-> zoom_headers.result, read |-> zoom_headers.read]
        ELSE IF ~header_data.ok
        THEN [status |-> "Err", result |-> ErrOf(IoError), read |-> header_data.read]
        ELSE IF magic # CHROM_TREE_MAGIC
        THEN [status |-> "Err", result |-> ErrOf(InvalidChroms), read |-> header_data.read]
        ELSE IF val_size # 8
        THEN [status |-> "panic", result |-> ErrOf(InvalidChroms), read |-> header_data.read]
        ELSE CHOOSE r \in
                {IF ~block.ok
                 THEN [status |-> "Err", result |-> ErrOf(InvalidChroms), read |-> block.read]
                 ELSE [status |-> "Ok",
                       result |-> Ok([filetype |-> filetype, header |-> header,
                                      zoom_headers |-> zoom_headers.result.val,
                                      chrom_info |-> sort_by_name(block.chroms)]),
                       read |-> block.read]
                 : block \in {read_chrom_tree_block(f, header_data.read, header.endianness,
                                                    key_size)}} : TRUE

\* read_info, built for a target of a byte order
read_info(f, read, target_endian) ==
    LET header_data == read_exact(f, read, 64)
        decided == decide_magic(f.magic, target_endian)
    IN  IF ~header_data.ok
        THEN [status |-> "Err", result |-> ErrOf(IoError), read |-> header_data.read]
        ELSE IF ~IsSome(decided)
        THEN [status |-> "Err", result |-> ErrOf(UnknownMagic), read |-> header_data.read]
        ELSE read_info_chroms(f, header_data.read, Unwrap(decided).filetype,
                              BBIHeader(f, Unwrap(decided).endianness))

\* impl From<BBIFileReadInfoError> for BigBedReadOpenError
BigBedReadOpenError_from(error) == IF error = UnknownMagic THEN NotABigBed ELSE error

\* BigBedRead::open
BigBedRead_open(f, read, target_endian) ==
    CHOOSE r \in
        {IF info.status = "panic" THEN info
         ELSE IF info.status = "Err"
         THEN [info EXCEPT !.result = ErrOf(BigBedReadOpenError_from(info.result.err))]
         ELSE IF info.result.val.filetype # "BigBed"
         THEN [info EXCEPT !.status = "Err", !.result = ErrOf(NotABigBed)]
         ELSE info
         : info \in {read_info(f, read, target_endian)}} : TRUE

(***************************************************************************)
(* SpecOpen: read_info and BigBedRead::open on files with every first four  *)
(* bytes of Magics, zero or one zoom level and a chromosome tree of one to  *)
(* three levels over one to three chromosomes, run by a build for a         *)
(* little-endian or a big-endian target.                                    *)
(***************************************************************************)

\* the bytes of a number of a width, as the writer of a byte order puts them
RECURSIVE be_bytes(_, _)
be_bytes(v, width) ==
    IF width = 0 THEN <<>> ELSE be_bytes(v \div 256, width - 1) \o <<v % 256>>

put_endian(v, width, endianness) ==
    IF endianness = "Big" THEN be_bytes(v, width) ELSE swap_bytes(be_bytes(v, width))

\* first four bytes: the two magics in both byte orders, and two that are none
Magics ==
    {BIGWIG_MAGIC, swap_bytes(BIGWIG_MAGIC), BIGBED_MAGIC, swap_bytes(BIGBED_MAGIC),
     <<0, 0, 0, 0>>, <<136, 143, 38, 252>>}

\* the byte order the rest of a file is written in
EndiannessOf(magic) ==
    IF magic \in {swap_bytes(BIGWIG_MAGIC), swap_bytes(BIGBED_MAGIC)} THEN "Little" ELSE "Big"

\* keys of key_size 2: "A", "B" (zero-padded) and "AB"
ChromKeys == {<<65, 0>>, <<66, 0>>, <<65, 66>>}

\* the keys of a tree in the order of its leaves: one to three different keys
ChromKeyLists ==
    {<<k>> : k \in ChromKeys}
    \cup {<<k1, k2>> : <<k1, k2>> \in {kk \in ChromKeys \X ChromKeys : kk[1] # kk[2]}}
    \cup {<<k1, k2, k3>> : <<k1, k2, k3>> \in
            {kk \in ChromKeys \X ChromKeys \X ChromKeys :
                kk[1] # kk[2] /\ kk[1] # kk[3] /\ kk[2] # kk[3]}}

ChromTreeShapes == {"leaf", "two", "three"}

\* the leaves of a tree of more than one node: one key each, or two and one
LeafGroups(keys) ==
    IF Len(keys) = 3 THEN <<<<1, 2>>, <<3>>>> ELSE [i \in 1..Len(keys) |-> <<i>>]

\* The nodes of a tree in the order they are written, a leaf with the
\* positions of its keys, an internal node with the positions of its children:
\*   leaf:  one leaf
\*   two:   root -> leaves
\*   three: root -> internal -> leaves; with three keys root -> two internal
\*          nodes of one leaf each
ChromTreeNodes(shape, keys) ==
    LET grouped == LeafGroups(keys)
        k == Len(grouped)
        leaves == [i \in 1..k |-> [isleaf |-> 1, items |-> grouped[i]]]
        inner(children) == [isleaf |-> 0, items |-> children]
    IN  IF shape = "leaf" THEN <<[isleaf |-> 1, items |-> [i \in 1..Len(keys) |-> i]]>>
        ELSE IF shape = "two" THEN <<inner([i \in 1..k |-> i + 1])>> \o leaves
        ELSE IF Len(keys) = 3 THEN <<inner(<<2, 3>>), inner(<<4>>), inner(<<5>>)>> \o leaves
        ELSE <<inner(<<2>>), inner([i \in 1..k |-> i + 2])>> \o leaves

\* a node is 4 bytes and count entries of key_size + 8 bytes; the root follows
\* the 32 bytes of the tree's header at 100
ChromNodeOffset(nodes, n) == 132 + SumSeq([i \in 1..(n - 1) |-> 4 + 10 * Len(nodes[i].items)])

\* node n as it is on disk: chromosome i of the tree has id i - 1, length 10 + i
ChromNodeBytes(nodes, n, keys, endianness) ==
    [isleaf |-> nodes[n].isleaf,
     count |-> put_endian(Len(nodes[n].items), 2, endianness),
     entries |->
        [j \in 1..Len(nodes[n].items) |->
            IF nodes[n].isleaf = 1
            THEN [key |-> keys[nodes[n].items[j]],
                  chrom_id |-> put_endian(nodes[n].items[j] - 1, 4, endianness),
                  chrom_size |-> put_endian(10 + nodes[n].items[j], 4, endianness)]
            ELSE [key |-> <<65, 0>>,
                  child_offset |-> put_endian(ChromNodeOffset(nodes, nodes[n].items[j]), 8,
                                              endianness)]]]

\* the bytes of a file: the header, the zoom headers after it, the header of
\* the chromosome tree at 100, its nodes from 132 to the end of the file
OpenFileOf(magic, zoom_levels, keys, shape) ==
    LET endianness == EndiannessOf(magic)
        nodes == ChromTreeNodes(shape, keys)
    IN  [len |-> ChromNodeOffset(nodes, Len(nodes) + 1),
         blocks |-> <<>>,
         magic |-> magic,
         header |-> [zoom_levels |-> put_endian(zoom_levels, 2, endianness),
                     chromosome_tree_offset |-> put_endian(100, 8, endianness),
                     full_index_offset |-> put_endian(300, 8, endianness),
                     uncompress_buf_size |-> put_endian(32768, 4, endianness)],
         zoom_headers |-> [i \in 1..zoom_levels |->
                            [reduction_level |-> put_endian(10, 4, endianness),
                             index_offset |-> put_endian(100, 8, endianness)]],
         chrom_tree |-> [magic |-> IF endianness = "Big" THEN CHROM_TREE_MAGIC
                                   ELSE swap_bytes(CHROM_TREE_MAGIC),
                         key_size |-> put_endian(2, 4, endianness),
                         val_size |-> put_endian(8, 4, endianness)],
         chroms |-> [o \in {ChromNodeOffset(nodes, n) : n \in 1..Len(nodes)} |->
                        ChromNodeBytes(nodes,
                                       CHOOSE n \in 1..Len(nodes) : ChromNodeOffset(nodes, n) = o,
                                       keys, endianness)]]

OpenInit ==
    /\ file \in {OpenFileOf(magic, zoom_levels, keys, shape) :
                    magic \in Magics, zoom_levels \in {0, 1},
                    keys \in ChromKeyLists, shape \in ChromTreeShapes}
    /\ bbifile \in {[target_endian |-> target_endian, info |-> Idle,
                     read |-> [pos |-> 0, reads |-> 0]] : target_endian \in {"little", "big"}}
    /\ interval_iter = Idle
    /\ query = NoQuery
    /\ MergeIntoIdle
    /\ MergeIdle
    /\ FillIdle
    /\ WriteIdle
    /\ HarnessIdle

\* the caller's view after read_info or open
Opened(call, r) ==
    [NoQuery EXCEPT
        !.pc = IF r.status = "Ok" THEN "opened"
               ELSE IF r.status = "Err" THEN "failed" ELSE "panicked",
        !.call = call,
        !.result = r.result]

ReadInfo ==
    /\ query.pc = "open"
    /\ \E r \in {read_info(file, bbifile.read, bbifile.target_endian)} :
        /\ bbifile' = [bbifile EXCEPT !.read = r.read,
                                      !.info = IF r.status = "Ok" THEN r.result.val ELSE @]
        /\ query' = Opened("read_info", r)
    /\ UNCHANGED <<mi, mergeVars, fillVars, file, interval_iter, groups, harnessVars>>

BigBedReadOpen ==
    /\ query.pc = "open"
    /\ \E r \in {BigBedRead_open(file, bbifile.read, bbifile.target_endian)} :
        /\ bbifile' = [bbifile EXCEPT !.read = r.read,
                                      !.info = IF r.status = "Ok" THEN r.result.val ELSE @]
        /\ query' = Opened("BigBedRead::open", r)
    /\ UNCHANGED <<mi, mergeVars, fillVars, file, interval_iter, groups, harnessVars>>

OpenNext ==
    \/ ReadInfo
    \/ BigBedReadOpen

SpecOpen == OpenInit /\ [][OpenNext]_vars

\* the places of the leaf entries of the file's chromosome tree
LeafPlaces ==
    {p \in (DOMAIN file.chroms) \X (1..3) :
        file.chroms[p[1]].isleaf = 1 /\ p[2] <= Len(file.chroms[p[1]].entries)}

\* the chromosome a leaf entry stands for
LeafChrom(p) == ChromInfo(file.chroms[p[1]].entries[p[2]], EndiannessOf(file.magic))

\* C12: for every chromosome tree, whatever its depth and its number of
\* nodes, read_info (of a build for a little-endian target, on a file with a
\* known magic) succeeds with a chromosome list that has each leaf entry of
\* the tree exactly once and is sorted by name.
C12_ChromListIsLeavesSortedByName ==
    /\ (query.call = "read_info" /\ bbifile.target_endian = "little"
            /\ file.magic \notin {<<0, 0, 0, 0>>, <<136, 143, 38, 252>>}) =>
         query.pc = "opened"
    /\ (query.call = "read_info" /\ query.pc = "opened") =>
         \E chrom_info \in {bbifile.info.chrom_info} :
            /\ \A p \in LeafPlaces :
                Cardinality({i \in 1..Len(chrom_info) : chrom_info[i] = LeafChrom(p)})
                    = Cardinality({q \in LeafPlaces : LeafChrom(q) = LeafChrom(p)})
            /\ Len(chrom_info) = Cardinality(LeafPlaces)
            /\ \A i \in 1..Len(chrom_info), j \in 1..Len(chrom_info) :
                i < j => str_cmp(chrom_info[i].name, chrom_info[j].name) <= 0

\* a tree of three levels and five nodes whose leaves hold "B", "AB", "A" in
\* that order
C12_Witness ==
    /\ query.call = "read_info"
    /\ query.pc = "opened"
    /\ Cardinality(DOMAIN file.chroms) = 5
    /\ file.chroms[132].isleaf = 0
    /\ LeafChrom(<<184, 1>>).name = <<66>>
    /\ LeafChrom(<<184, 2>>).name = <<65, 66>>
    /\ [i \in 1..3 |-> bbifile.info.chrom_info[i].name] = <<<<65>>, <<65, 66>>, <<66>>>>

\* the four bytes are the magic in big-endian order, or byte-swapped
IsMagic(bytes, magic, endianness) ==
    bytes = (IF endianness = "Big" THEN magic ELSE swap_bytes(magic))

\* C13: read_info takes the file type and the byte order from the first four
\* bytes: the big-endian encoding of the BigWig or the BigBed magic gives
\* Endianness::Big, the byte-swapped encoding Endianness::Little, any other
\* four bytes the error UnknownMagic; BigBedRead::open returns NotABigBed for
\* an unknown magic and for a BigWig magic.
C13_MagicDecidesTypeAndEndianness ==
    /\ query.call = "read_info" =>
        /\ \A filetype \in {"BigWig", "BigBed"}, endianness \in {"Big", "Little"} :
            IsMagic(file.magic, IF filetype = "BigWig" THEN BIGWIG_MAGIC ELSE BIGBED_MAGIC,
                    endianness) =>
                /\ query.pc = "opened"
                /\ bbifile.info.filetype = filetype
                /\ bbifile.info.header.endianness = endianness
        /\ file.magic \in {<<0, 0, 0, 0>>, <<136, 143, 38, 252>>} =>
                query.result = ErrOf(UnknownMagic)
    /\ query.call = "BigBedRead::open" =>
        /\ file.magic \in {<<0, 0, 0, 0>>, <<136, 143, 38, 252>>,
                            BIGWIG_MAGIC, swap_bytes(BIGWIG_MAGIC)} =>
                query.result = ErrOf(NotABigBed)
        /\ file.magic \in {BIGBED_MAGIC, swap_bytes(BIGBED_MAGIC)} =>
                query.pc = "opened" /\ bbifile.info.filetype = "BigBed"

(***************************************************************************)
(* bin/bigtools.rs, the intersect command: main opens the bigBed and runs   *)
(* intersect, which queries the bigBed for every line of the input bed and  *)
(* writes the records it gets.  main_thread is the thread of main: where it *)
(* stands, the lines not yet read, what went to stderr, the exit status.    *)
(***************************************************************************)

\* a line of the input bed as splitn() and parse::<u32>() see it; a line with
\* no start field has no end field either
BedLine(chrom, start, end) == [chrom |-> chrom, start |-> Some(start), end |-> Some(end)]
ShortLine == [chrom |-> "chr1", start |-> None, end |-> None]

\* the status the process ends with: main returned Ok or Err, or panicked
ExitStatus(how) == IF how = "Ok" THEN 0 ELSE IF how = "Err" THEN 1 ELSE 101

\* the thread of main after it returned or panicked, a line on stderr for an
\* Err and for a panic
Exited(how, kind) ==
    [main_thread EXCEPT
        !.pc = "exited",
        !.stderr = IF how = "Ok" THEN @ ELSE Append(@, kind),
        !.exit = ExitStatus(how)]

\* eprintln!("An error occured when intersecting ..")
eprintln(kind) == [main_thread EXCEPT !.stderr = Append(@, kind)]

BedLines ==
    {BedLine(chrom, p[1], p[2]) : chrom \in ChromNames, p \in Intervals(MaxBase)}
    \cup {ShortLine}

IntersectInit ==
    /\ file \in {FileOf(<<Rec(0, p1)>>, <<Rec(1, p2)>>, "leaf", fault) :
                    p1 \in Intervals(MaxBase), p2 \in Intervals(MaxBase), fault \in Faults}
                \cup {OpenFileOf(<<0, 0, 0, 0>>, 0, <<<<65, 0>>>>, "leaf")}
    /\ main_thread \in
        {[pc |-> "main", bedstream |-> bedstream, stderr |-> <<>>, exit |-> 0] :
            bedstream \in {<<>>} \cup {<<l>> : l \in BedLines}
                          \cup {<<l1, l2>> : l1 \in BedLines, l2 \in BedLines}}
    /\ bedoutwriter = <<>>
    /\ bbifile = Idle
    /\ interval_iter = Idle
    /\ query = NoQuery
    /\ MergeIntoIdle
    /\ MergeIdle
    /\ FillIdle
    /\ WriteIdle
    /\ chrom_data = Idle
    /\ chrom_data_channel = Idle
    /\ result_channels = Idle
    /\ threads = Idle
    /\ completed = Idle

intersectUnchanged ==
    <<mi, mergeVars, fillVars, file, groups, chrom_data, chrom_data_channel, result_channels,
      threads, completed>>

\* main, SubCommands::Intersect: BigBedRead::open_file(&b)? and the call of
\* intersect; a file with a header is opened by BigBedRead::open, a file of
\* data blocks and indexes is a bigBed whose info is InfoOf
MainIntersect ==
    /\ main_thread.pc = "main"
    /\ IF "magic" \in DOMAIN file
       THEN \E b \in {BigBedRead_open(file, [pos |-> 0, reads |-> 0], "little")} :
                IF b.status = "Ok"
                THEN /\ bbifile' = [info |-> b.result.val, read |-> b.read]
                     /\ main_thread' = [main_thread EXCEPT !.pc = "intersect"]
                ELSE /\ bbifile' = bbifile
                     /\ main_thread' = Exited(b.status, b.result.err.kind)
       ELSE /\ bbifile' = [info |-> InfoOf, read |-> [pos |-> 0, reads |-> 0]]
            /\ main_thread' = [main_thread EXCEPT !.pc = "intersect"]
    /\ UNCHANGED <<interval_iter, query, bedoutwriter, intersectUnchanged>>

\* intersect, while let Some(line) = bedstream.read(): the line is split and
\* parsed and the bigBed is asked; an Err of get_interval is printed and the
\* loop goes on
IntersectLine ==
    /\ main_thread.pc = "intersect"
    /\ IF main_thread.bedstream = <<>>
       THEN /\ main_thread' = Exited("Ok", "")
            /\ UNCHANGED <<bbifile, interval_iter, query>>
       ELSE \E line \in {Head(main_thread.bedstream)} :
            IF ~IsSome(line.start) \/ ~IsSome(line.end)
            THEN /\ main_thread' = Exited("Err", "InvalidData")
                 /\ UNCHANGED <<bbifile, interval_iter, query>>
            ELSE \E interval \in {get_interval(file, bbifile.info, bbifile.read, line.chrom,
                                               Unwrap(line.start), Unwrap(line.end))} :
                    /\ bbifile' = [bbifile EXCEPT !.read = interval.read]
                    /\ interval_iter' = interval.iter
                    /\ query' = Asked("get_interval", line.chrom, Unwrap(line.start),
                                      Unwrap(line.end), interval)
                    /\ main_thread' =
                        [(IF interval.result.ok THEN main_thread
                          ELSE eprintln(interval.result.err.kind)) EXCEPT
                            !.pc = IF interval.result.ok THEN "for raw_val" ELSE "intersect",
                            !.bedstream = Tail(@)]
    /\ UNCHANGED <<bedoutwriter, intersectUnchanged>>

\* intersect, for raw_val in interval: an Err item is printed and the loop
\* goes on, a record is written to stdout
IntersectRawVal ==
    /\ main_thread.pc = "for raw_val"
    /\ \E raw_val \in {IntervalIter_next(file, bbifile.info, bbifile.read, interval_iter)} :
        /\ bbifile' = [bbifile EXCEPT !.read = raw_val.read]
        /\ interval_iter' = raw_val.it
        /\ query' = Got(raw_val)
        /\ IF raw_val.panic
           THEN /\ main_thread' = Exited("panic", "panic")
                /\ bedoutwriter' = bedoutwriter
           ELSE IF ~IsSome(raw_val.item)
           THEN /\ main_thread' = [main_thread EXCEPT !.pc = "intersect"]
                /\ bedoutwriter' = bedoutwriter
           ELSE IF ~Unwrap(raw_val.item).ok
           THEN /\ main_thread' = eprintln(Unwrap(raw_val.item).err.kind)
                /\ bedoutwriter' = bedoutwriter
           ELSE /\ main_thread' = main_thread
                /\ bedoutwriter' = Append(bedoutwriter, Unwrap(raw_val.item).val)
    /\ UNCHANGED intersectUnchanged

IntersectNext ==
    \/ MainIntersect
    \/ IntersectLine
    \/ IntersectRawVal

SpecIntersect == IntersectInit /\ [][IntersectNext]_vars

\* C14: the command ends with a non-zero exit status whenever an error
\* occurred while it ran: the bigBed could not be opened, a line of the bed
\* could not be parsed, a query failed (unknown chromosome, an Err item of
\* the iterator).
C14_ErrorsEndNonZero ==
    (main_thread.pc = "exited" /\ main_thread.stderr # <<>>) => main_thread.exit # 0

(***************************************************************************)
(* merge_into on the pairs of SpecMergeInto that do not overlap.            *)
(***************************************************************************)

\* C15: merge_into panics for every pair of Values that do not overlap, when
\* one ends at or before the start of two and when two ends at or before the
\* start of one; it returns no pieces for such a pair.
C15_NoOverlapPanics ==
    (mi.pc = "returned" /\ ~Overlap(mi.one, mi.two)) => mi.result.panic

(***************************************************************************)
(* SpecZeroRecord: get_interval on bigBed files whose first block holds a   *)
(* record with start 0 and end 0, alone, before, after or between records   *)
(* of one chromosome.                                                       *)
(***************************************************************************)

ZeroRecordContents ==
    {<<Rec(c, <<0, 0>>)>> : c \in {0, 1}}
    \cup {<<Rec(c, <<0, 0>>), Rec(c, p)>> : c \in {0, 1}, p \in Intervals(MaxBase)}
    \cup {<<Rec(c, p), Rec(c, <<0, 0>>)>> : c \in {0, 1}, p \in Intervals(MaxBase)}
    \cup {<<Rec(c, p), Rec(c, <<0, 0>>), Rec(c, p)>> : c \in {0, 1}, p \in Intervals(MaxBase)}

ZeroRecordInit ==
    /\ file \in {FileOf(b1, <<Rec(c, p)>>, "leaf", [block |-> 0, kind |-> "none"]) :
                    b1 \in ZeroRecordContents, c \in {0, 1}, p \in Intervals(MaxBase)}
    /\ bbifile = [info |-> InfoOf, read |-> [pos |-> 0, reads |-> 0]]
    /\ interval_iter = Idle
    /\ query = NoQuery
    /\ MergeIntoIdle
    /\ MergeIdle
    /\ FillIdle
    /\ WriteIdle
    /\ HarnessIdle

ZeroRecordNext ==
    \/ GetInterval
    \/ IntervalIterNext

SpecZeroRecord == ZeroRecordInit /\ [][ZeroRecordNext]_vars

\* a block of the file holds a record with start 0 and end 0
HasZeroRecord(block) ==
    \E i \in 1..Len(file.blocks[block.offset].records) :
        /\ file.blocks[block.offset].records[i].start = 0
        /\ file.blocks[block.offset].records[i].end = 0

\* C16: when a block the query decodes holds a record with start 0 and end
\* 0, the caller gets an InvalidFile error as an item of the iterator; the
\* query does not end as if the block were valid.
C16_ZeroRecordIsInvalidFile ==
    (query.pc = "done" /\ \E i \in 1..Len(query.blocks) : HasZeroRecord(query.blocks[i])) =>
        \E i \in 1..Len(query.items) :
            ~query.items[i].ok /\ query.items[i].err.kind = "InvalidFile"

(***************************************************************************)
(* The parallel path of bigwigaverageoverbed when a chromosome fails, and   *)
(* the sends of its threads.                                                *)
(***************************************************************************)

\* a spawned thread takes the work of a further chromosome in this step
StartsTask(t) == threads[t].pc = "recv" /\ threads'[t].pc = "process"

\* C17: when the task of a chromosome fails, main returns the error (it does
\* not return Ok with a chromosome missing from the output), and from the
\* moment main has seen the failure no spawned thread starts the task of a
\* further chromosome.
C17_FailureStopsWorkers ==
    /\ [](main_thread.returned = "Ok" => Len(bedoutwriter) = Len(result_channels))
    /\ [][main_thread.returned = "Err" => \A t \in Workers : ~StartsTask(t)]_vars

\* the chromosomes whose result was sent, each once
SentOnce == \A i \in 1..Len(completed), j \in 1..Len(completed) :
                completed[i] = completed[j] => i = j

\* a thread that holds the work of a chromosome finds the channel of that
\* chromosome empty and never used: its send has room
SendHasRoom(task) ==
    /\ result_channels[task.result_sender].buf = <<>>
    /\ result_channels[task.result_sender].sender
    /\ \A i \in 1..Len(completed) : completed[i] # task.chrom

\* C18: no send blocks. The work queue only shrinks after the threads were
\* started, every bounded(1) result channel gets at most one message, and a
\* spawned thread or the main thread that has processed a chromosome finds
\* the channel of that chromosome empty.
C18_SendNeverBlocks ==
    /\ SentOnce
    /\ \A k \in 1..Len(result_channels) : Len(result_channels[k].buf) <= 1
    /\ Len(chrom_data_channel) <= Len(result_channels)
    /\ \A t \in Workers : threads[t].pc = "process" => SendHasRoom(threads[t].task)
    /\ main_thread.pc = "process" => SendHasRoom(main_thread.task)

\* one result waits in its channel, not yet received, while a spawned thread
\* and the main thread have each processed a chromosome and are about to send
C18_Witness ==
    /\ Len(completed) = 1
    /\ result_channels[completed[1]].buf # <<>>
    /\ main_thread.pc = "process"
    /\ \E t \in Workers : threads[t].pc = "process"

(***************************************************************************)
(* Two readers of one file: BigBedRead and the reader its reopen() makes,   *)
(* each with a query of its own, run in any interleaving.  bbifile,         *)
(* interval_iter and query are those of the reader that runs; threads       *)
(* holds the reader that waits.  A file handle has an identity, fd: two     *)
(* readers over one handle would move one position.                         *)
(***************************************************************************)

\* what read_info leaves in BigBedRead.info, the autoSql text at offset 64
ReopenInfo ==
    [chrom_info |-> ChromInfos,
     header |-> [full_index_offset |-> 300, uncompress_buf_size |-> 32768,
                 auto_sql_offset |-> 64],
     zoom_headers |-> <<[reduction_level |-> 10, index_offset |-> 100]>>]

\* Reopen::reopen of the file handle: the file opened again, a handle of its
\* own at the start of the file
reopen(read) == [fd |-> read.fd + 1, pos |-> 0, reads |-> 0]

\* a wrong reopen, which hands out the reader's own file handle again
BigBedRead_reopen_same_read(reader) == [info |-> reader.info, read |-> reader.read]

\* impl Reopen for BigBedRead: info: self.info.clone(), read: self.read.reopen()?
BigBedRead_reopen(reader) == [info |-> reader.info, read |-> reopen(reader.read)]

\* BigBedRead::autosql: seek to auto_sql_offset and read_until(0) through a
\* BufReader, which reads ahead to the end of a file shorter than its buffer;
\* the info is only read
autosql(f, info, read) ==
    [result |-> Ok("autosql"),
     read |-> [seek(read, info.header.auto_sql_offset) EXCEPT !.pos = f.len, !.reads = @ + 1]]

\* chr1 in block 1; block 2, next to it in the file, holds chr1 or chr2
ReopenInit ==
    /\ file \in {FileOf(<<Rec(0, <<0, 1>>)>>, <<Rec(c2, <<MaxBase - 1, MaxBase>>)>>, layout,
                        [block |-> 0, kind |-> "none"]) :
                    c2 \in {0, 1}, layout \in {"leaf", "three"}}
    /\ bbifile = [info |-> ReopenInfo, read |-> [fd |-> 1, pos |-> 0, reads |-> 0]]
    /\ interval_iter = Idle
    /\ query = NoQuery
    /\ threads = <<>>
    /\ MergeIntoIdle
    /\ MergeIdle
    /\ FillIdle
    /\ WriteIdle
    /\ chrom_data = Idle
    /\ chrom_data_channel = Idle
    /\ result_channels = Idle
    /\ main_thread = Idle
    /\ bedoutwriter = Idle
    /\ completed = Idle

reopenUnchanged == <<mi, mergeVars, fillVars, file, groups, chrom_data, chrom_data_channel,
                     result_channels, main_thread, bedoutwriter, completed>>

\* reopen() on the reader, which no iterator borrows: the new reader is given
\* to another thread (bigwigaverageoverbed.rs:179-182)
Reopen ==
    /\ threads = <<>>
    /\ query.pc # "iterating"
    /\ threads' = <<[bbifile |-> BigBedRead_reopen(bbifile), interval_iter |-> Idle,
                     query |-> NoQuery]>>
    /\ UNCHANGED <<reopenUnchanged, bbifile, interval_iter, query>>

\* the scheduler lets the other thread run: its reader, iterator and query
\* come in, the ones that ran wait.  A handle keeps its own position; two
\* readers on one handle find it where the other left it.
Switch ==
    /\ threads # <<>>
    /\ bbifile' = [info |-> threads[1].bbifile.info,
                   read |-> IF threads[1].bbifile.read.fd = bbifile.read.fd
                            THEN bbifile.read ELSE threads[1].bbifile.read]
    /\ interval_iter' = threads[1].interval_iter
    /\ query' = threads[1].query
    /\ threads' = <<[bbifile |-> bbifile, interval_iter |-> interval_iter, query |-> query]>>
    /\ UNCHANGED reopenUnchanged

\* autosql() on a reader that has not been asked anything yet
Autosql ==
    /\ query.pc = "open"
    /\ query.call = ""
    /\ \E r \in {autosql(file, bbifile.info, bbifile.read)} :
        /\ bbifile' = [bbifile EXCEPT !.read = r.read]
        /\ query' = [query EXCEPT !.call = "autosql", !.result = r.result]
    /\ UNCHANGED <<reopenUnchanged, interval_iter, threads>>

ReopenNext ==
    \/ Reopen
    \/ Switch
    \/ Autosql
    \/ GetInterval
    \/ GetZoomInterval
    \/ IntervalIterNext
    \/ ZoomIntervalIterNext

SpecReopen == ReopenInit /\ [][ReopenNext]_vars

\* the items of an iterator taken to its end with nothing in between
RECURSIVE RunToEnd(_, _, _, _, _)
RunToEnd(f, info, read, it, items) ==
    CHOOSE out \in
        {IF r.panic THEN [pc |-> "panicked", items |-> items]
         ELSE IF IsSome(r.item)
         THEN RunToEnd(f, info, r.read, r.it, Append(items, Unwrap(r.item)))
         ELSE [pc |-> "done", items |-> items]
         : r \in {IF it.struct = "IntervalIter"
                  THEN IntervalIter_next(f, info, read, it)
                  ELSE ZoomIntervalIter_next(f, info, read, it)}} : TRUE

\* the query q run alone, on a reader of the file that does nothing else
RunAlone(f, info, q) ==
    CHOOSE out \in
        {IF ~r.result.ok
         THEN [pc |-> "failed", result |-> r.result, blocks |-> r.blocks, items |-> <<>>]
         ELSE [result |-> r.result, blocks |-> r.blocks] @@ RunToEnd(f, info, r.read, r.iter, <<>>)
         : r \in {IF q.call = "get_interval"
                  THEN get_interval(f, info, [fd |-> 0, pos |-> 0, reads |-> 0],
                                    q.chrom_name, q.start, q.end)
                  ELSE get_zoom_interval(f, info, [fd |-> 0, pos |-> 0, reads |-> 0],
                                         q.chrom_name, q.start, q.end, q.reduction_level)}} : TRUE

\* what the caller of q has got so far is what it gets when q runs alone
SameAsAlone(f, info, q) ==
    q.call \in {"get_interval", "get_zoom_interval"} =>
        \E alone \in {RunAlone(f, info, q)} :
            /\ q.result = alone.result
            /\ q.blocks = alone.blocks
            /\ IF q.pc = "iterating" THEN IsPrefix(q.items, alone.items)
               ELSE q.pc = alone.pc /\ q.items = alone.items

\* C19: no query operation changes the info of a reader; the reader made by
\* reopen has the same info and a file handle of its own; and the queries of
\* the two readers, however interleaved, give each caller the result, the
\* blocks and the records its query gives when run alone.
C19_ReadersAreIndependent ==
    /\ bbifile.info = ReopenInfo
    /\ SameAsAlone(file, bbifile.info, query)
    /\ threads # <<>> =>
        /\ threads[1].bbifile.info = bbifile.info
        /\ threads[1].bbifile.read.fd # bbifile.read.fd
        /\ SameAsAlone(file, threads[1].bbifile.info, threads[1].query)

\* both readers are in the middle of their queries on chr1, one on the data
\* and one on the zoom level, each with its first record and a block to go,
\* their handles at different positions
C19_Witness ==
    /\ threads # <<>>
    /\ query.pc = "iterating" /\ threads[1].query.pc = "iterating"
    /\ query.call = "get_interval" /\ threads[1].query.call = "get_zoom_interval"
    /\ Len(query.items) = 1 /\ Len(threads[1].query.items) = 1
    /\ interval_iter.blocks # <<>> /\ threads[1].interval_iter.blocks # <<>>
    /\ bbifile.read.pos # threads[1].bbifile.read.pos

(***************************************************************************)
(* search_overlapping_blocks on an index whose entries have any bounds, as  *)
(* a file of another producer may have them: three levels,                  *)
(*   root -> (mid -> leaf A (block 10), leaf B (blocks 20, 30)),            *)
(*           leaf C (block 40)                                              *)
(***************************************************************************)

\* the bounds an entry may have: within chr1, from chr1 into chr2, within
\* chr2, and both chromosomes whole
SearchBounds ==
    {<<0, 0, 0, 1>>, <<0, 1, 1, 1>>, <<1, 0, 1, MaxBase>>, <<0, 0, 1, MaxBase>>}

\* an index entry with bounds b that points at offset, size bytes long
Entry(b, offset, size) ==
    [start_chrom_ix |-> b[1], start_base |-> b[2], end_chrom_ix |-> b[3], end_base |-> b[4],
     data_offset |-> offset, data_size |-> size]

\* the file of the index at 300: the root at 348, mid at 400, the leaves at
\* 452, 488 and 556, the end of the file at 592
SearchFileOf(r1, r2, m1, m2, a1, b1, b2, c1) ==
    [blocks |-> <<>>,
     nodes |-> (348 :> Internal(<<Entry(r1, 400, 0), Entry(r2, 556, 0)>>))
               @@ (400 :> Internal(<<Entry(m1, 452, 0), Entry(m2, 488, 0)>>))
               @@ (452 :> Leaf(<<Entry(a1, 10, 10)>>))
               @@ (488 :> Leaf(<<Entry(b1, 20, 10), Entry(b2, 30, 10)>>))
               @@ (556 :> Leaf(<<Entry(c1, 40, 10)>>)),
     len |-> 592]

SearchInit ==
    /\ file \in {SearchFileOf(r1, r2, m1, m2, a1, b1, <<0, 1, 1, 1>>, <<1, 0, 1, MaxBase>>) :
                    r1 \in SearchBounds, r2 \in SearchBounds, m1 \in SearchBounds,
                    m2 \in SearchBounds, a1 \in SearchBounds, b1 \in SearchBounds}
    /\ bbifile = [info |-> InfoOf, read |-> [pos |-> 0, reads |-> 0]]
    /\ interval_iter = Idle
    /\ query = NoQuery
    /\ MergeIntoIdle
    /\ MergeIdle
    /\ FillIdle
    /\ WriteIdle
    /\ HarnessIdle

SearchNext == GetInterval

SpecSearch == SearchInit /\ [][SearchNext]_vars

\* (chrom, base) compared lexicographically
LexLE(chrom1, base1, chrom2, base2) ==
    chrom1 < chrom2 \/ (chrom1 = chrom2 /\ base1 <= base2)

\* the query starts at or before the end of the entry's bounds and ends at
\* or after their start
QueryOverlaps(chrom_ix, start, end, en) ==
    /\ LexLE(chrom_ix, start, en.end_chrom_ix, en.end_base)
    /\ LexLE(en.start_chrom_ix, en.start_base, chrom_ix, end)

\* Every leaf entry under the node at `at`, in depth-first, left-to-right
\* order, nothing left out: its block, whether the query overlaps the entry
\* (own) and whether it overlaps every internal entry above it too (path).
RECURSIVE LeavesUnder(_, _, _, _, _, _)
RECURSIVE LeavesOfEntries(_, _, _, _, _, _, _)
LeavesUnder(f, at, path, chrom_ix, start, end) ==
    LeavesOfEntries(f, f.nodes[at].isleaf, f.nodes[at].entries, path, chrom_ix, start, end)

LeavesOfEntries(f, isleaf, entries, path, chrom_ix, start, end) ==
    IF entries = <<>> THEN <<>>
    ELSE (IF isleaf = 1
          THEN <<[block |-> Block(Head(entries).data_offset, Head(entries).data_size),
                  own |-> QueryOverlaps(chrom_ix, start, end, Head(entries)),
                  path |-> path]>>
          ELSE LeavesUnder(f, Head(entries).data_offset,
                           path /\ QueryOverlaps(chrom_ix, start, end, Head(entries)),
                           chrom_ix, start, end))
         \o LeavesOfEntries(f, isleaf, Tail(entries), path, chrom_ix, start, end)

\* the leaf entries of the full index for the query the caller made
QueryLeaves ==
    LeavesUnder(file, bbifile.info.header.full_index_offset + 48, TRUE,
                chrom_id(bbifile.info.chrom_info, query.chrom_name).val, query.start, query.end)

BlocksOf(leaves) == [i \in 1..Len(leaves) |-> leaves[i].block]

\* C20: the blocks search_overlapping_blocks returns are the leaf entries the
\* query overlaps with every internal entry above them overlapped too, each
\* once, in the depth-first, left-to-right order of the tree.
C20_SearchReturnsOverlappingLeavesInOrder ==
    (query.call = "get_interval" /\ query.chrom_name \in {"chr1", "chr2"}) =>
        /\ query.result.ok
        /\ query.blocks = BlocksOf(SelectSeq(QueryLeaves, LAMBDA l : l.own /\ l.path))

\* a search on chr2 that returned the blocks of leaves B and C and left out
\* the entry of leaf A, which the query overlaps, the entry of mid above it
\* not being overlapped
C20_Witness ==
    /\ query.call = "get_interval"
    /\ query.chrom_name = "chr2"
    /\ query.blocks = <<Block(20, 10), Block(30, 10), Block(40, 10)>>
    /\ \E i \in 1..Len(QueryLeaves) : QueryLeaves[i].own /\ ~QueryLeaves[i].path

(***************************************************************************)
(* The remembered offset of IntervalIter.  The index is one leaf over       *)
(* three data blocks of chr1 at 10, 20 and 30, listed in any order, as the  *)
(* index of a file of another producer may list them; one block may be      *)
(* unreadable or not decompress.                                            *)
(***************************************************************************)

BlockOrders == {<<10, 20, 30>>, <<10, 30, 20>>, <<20, 10, 30>>,
                <<20, 30, 10>>, <<30, 10, 20>>, <<30, 20, 10>>}

KnownOffsetFaults ==
    {[block |-> 0, kind |-> "none"]}
    \cup {[block |-> k, kind |-> kind] : k \in {1, 2, 3}, kind \in {"io", "zlib"}}

\* block k, at offset 10 * k, holds the one record [0, 1) of chr1; the leaf
\* at 348 lists the blocks in the given order; the file ends after the leaf
KnownOffsetFileOf(order, fault) ==
    [blocks |-> [o \in {10, 20, 30} |->
                    [records |-> Stored(<<Rec(0, <<0, 1>>)>>, o \div 10),
                     fault |-> FaultOf(fault, o \div 10)]],
     nodes |-> (348 :> Leaf([i \in 1..3 |-> Bounding(<<Rec(0, <<0, 1>>)>>, order[i], 10)])),
     len |-> 448]

KnownOffsetInit ==
    /\ file \in {KnownOffsetFileOf(order, fault) :
                    order \in BlockOrders, fault \in KnownOffsetFaults}
    /\ bbifile = [info |-> InfoOf, read |-> [pos |-> 0, reads |-> 0]]
    /\ interval_iter = Idle
    /\ query = NoQuery
    /\ MergeIntoIdle
    /\ MergeIdle
    /\ FillIdle
    /\ WriteIdle
    /\ HarnessIdle

KnownOffsetNext ==
    \/ GetInterval
    \/ GetIntervalMove
    \/ IntervalIterNext

SpecKnownOffset == KnownOffsetInit /\ [][KnownOffsetNext]_vars

\* What the blocks of a list give when each is read at its own offset: an
\* Err item for an unreadable block, the end of the query by a panic at a
\* block that does not decompress, otherwise the records that pass the filter.
RECURSIVE ItemsAtOffsets(_, _, _, _)
ItemsAtOffsets(f, blocks, start, end) ==
    IF blocks = <<>> THEN [panic |-> FALSE, items |-> <<>>]
    ELSE IF f.blocks[Head(blocks).offset].fault = "zlib" THEN [panic |-> TRUE, items |-> <<>>]
    ELSE CHOOSE r \in
            {[panic |-> rest.panic,
              items |-> (IF f.blocks[Head(blocks).offset].fault = "io"
                         THEN <<ErrOf(IoError)>>
                         ELSE LET rs == SelectSeq(f.blocks[Head(blocks).offset].records,
                                            LAMBDA x : x.end >= start /\ x.start <= end)
                              IN  [i \in 1..Len(rs) |->
                                      Ok(BedEntry(rs[i].start, rs[i].end, rs[i].rest))])
                        \o rest.items] :
                rest \in {ItemsAtOffsets(f, Tail(blocks), start, end)}} : TRUE

\* the next fetch skips its seek: the remembered offset is the block's offset
SeekSkipped ==
    /\ query.pc = "iterating"
    /\ interval_iter.blocks # <<>>
    /\ interval_iter.known_offset = Head(interval_iter.blocks).offset

\* C21: whenever the next fetch skips its seek the file position is the
\* offset of the block, and the items the caller has got are those of the
\* blocks of the query each read at its own offset, also after a fetch that
\* failed.
C21_BlockBytesAreAtItsOffset ==
    /\ SeekSkipped => bbifile.read.pos = Head(interval_iter.blocks).offset
    /\ query.pc \in {"iterating", "done", "panicked"} =>
        \E at \in {ItemsAtOffsets(file, query.blocks, query.start, query.end)} :
            /\ IsPrefix(query.items, at.items)
            /\ query.pc = "done" => (~at.panic /\ query.items = at.items)
            /\ query.pc = "panicked" => (at.panic /\ query.items = at.items)

(***************************************************************************)
(* An Err item in the input of fill and fill_start_to_end.                  *)
(***************************************************************************)

\* every item a FillValues yields until None
RECURSIVE FillAll(_)
FillAll(fv) ==
    CHOOSE out \in
        {IF IsSome(r.item) THEN r.item \o FillAll(r.fv) ELSE <<>> :
            r \in {FillValues_next(fv)}} : TRUE

\* the call of the consumer made again on the Ok values of its input alone
WithoutErr ==
    IF filled.call = "fill" THEN fill(OkStream(OkValues(filled.input)))
    ELSE fill_start_to_end(OkStream(OkValues(filled.input)), filled.start, filled.end)

\* C22: an Err item of the input comes out as it is, in its place among the
\* items passed on; the tracked end stays the end of the last Ok item
\* yielded (the start of the call before any); and the Ok items yielded are
\* those yielded for the input without the Err item, to the last of them,
\* the trailing zero value of fill_start_to_end included.
C22_ErrItemPassesThrough ==
    filled.pc \in {"iterating", "done"} =>
        \E out \in {OkValues(filled.out)}, alone \in {OkValues(FillAll(WithoutErr))} :
            /\ IsPrefix(SelectFlagged(filled.out, filled.inserted, FALSE)
                        \o (IF IsSome(fill_values.last_val)
                            THEN <<Ok(Unwrap(fill_values.last_val))>> ELSE <<>>),
                        filled.input)
            /\ fill_values.last_end =
                  IF out # <<>> THEN out[Len(out)].end
                  ELSE IF filled.call = "fill" THEN 0 ELSE filled.start
            /\ IsPrefix(out, alone)
            /\ filled.pc = "done" => out = alone

\* fill_start_to_end has finished on an input of a Value, an Err item and a
\* second Value after a gap: the Err item is out, and after it the zero
\* value of the gap, the second Value and the trailing zero value
C22_Witness ==
    /\ filled.pc = "done"
    /\ filled.call = "fill_start_to_end"
    /\ Len(filled.input) = 3 /\ ~filled.input[2].ok
    /\ Len(filled.out) = 5
    /\ ~filled.out[2].ok
    /\ filled.inserted = <<FALSE, FALSE, TRUE, FALSE, TRUE>>

(***************************************************************************)
(* The overhang of merge_into.                                              *)
(***************************************************************************)

\* the pieces of a result that are not the overhang
InnerPieces(result) ==
    <<result.one>> \o result.two \o result.three

\* C23: for every overlapping pair, the pieces of the result other than the
\* overhang end at or before one.end, and the result has an overhang exactly
\* when two.end > one.end; the overhang then covers [one.end, two.end).
C23_OverhangIsWhatIsPastOne ==
    (mi.pc = "returned" /\ Overlap(mi.one, mi.two)) =>
        /\ ~mi.result.panic
        /\ \A p \in 1..Len(InnerPieces(mi.result)) :
              InnerPieces(mi.result)[p].end <= mi.one.end
        /\ IsSome(mi.result.overhang) <=> mi.two.end > mi.one.end
        /\ IsSome(mi.result.overhang) =>
              /\ Unwrap(mi.result.overhang).start = mi.one.end
              /\ Unwrap(mi.result.overhang).end = mi.two.end

(***************************************************************************)
(* SpecInsert: the closure insert_into_queue of ValueIter::next applied to  *)
(* every queue within the bounds that is sorted by start and                *)
(* non-overlapping, and every Value to insert.  value_iter holds the call.  *)
(***************************************************************************)
InsertMaxPos == 4
InsertMaxItems == 2

\* values of the queue and of the Value to insert, in units, zero among them
InsertValues == {-1, 0, 1}

InsertInit ==
    /\ value_iter \in
         {[pc |-> "insert", queue |-> queue, next_val |-> Value(p[1], p[2], v),
           result |-> [queue |-> <<>>, status |-> "ok"]] :
             queue \in SortedValueSeqs(InsertMaxItems, Intervals(InsertMaxPos), InsertValues),
             p \in Intervals(InsertMaxPos), v \in InsertValues}
    /\ merged = Idle
    /\ MergeIntoIdle
    /\ FillIdle
    /\ ReadIdle
    /\ WriteIdle
    /\ HarnessIdle

InsertIntoQueue ==
    /\ value_iter.pc = "insert"
    /\ value_iter' = [value_iter EXCEPT
                        !.pc = "inserted",
                        !.result = insert_into_queue(value_iter.queue, value_iter.next_val)]
    /\ UNCHANGED <<mi, merged, fillVars, readVars, groups, harnessVars>>

InsertNext == InsertIntoQueue

SpecInsert == InsertInit /\ [][InsertNext]_vars

NonZeroBases(inputs) ==
    {base \in 0..(MergeMaxPos + DATA_SIZE) : InputSumAt(inputs, base) # 0}

\* C25: two consecutive Values of the output that touch never carry the same
\* value, within a window and across the boundary of two windows, and the
\* last Value of the finished output ends right after the last base at which
\* the inputs sum to something not 0.
C25_OutputIsRunLengthCanonical ==
    merged.pc \in {"iterating", "done"} =>
        /\ \A i \in 1..(Len(merged.out) - 1) :
              merged.out[i].end = merged.out[i + 1].start
                  => merged.out[i].value # merged.out[i + 1].value
        /\ (merged.pc = "done" /\ NonZeroBases(merged.inputs) # {}) =>
              /\ merged.out # <<>>
              /\ \A base \in NonZeroBases(merged.inputs) :
                    base < merged.out[Len(merged.out)].end
              /\ merged.out[Len(merged.out)].end - 1 \in NonZeroBases(merged.inputs)

(***************************************************************************)
(* The assertion on the chromosome of a record.  Block 1 holds two records, *)
(* each of chr1 or chr2, the second possibly the record 0-0 (as zero bytes  *)
(* after the last record decode); block 2 holds a record of chr2.           *)
(***************************************************************************)

ChromAssertContents ==
    {<<Rec(c1, p), Rec(c2, q)>> :
        c1 \in {0, 1}, c2 \in {0, 1},
        p \in Intervals(MaxBase), q \in Intervals(MaxBase) \cup {<<0, 0>>}}

ChromAssertInit ==
    /\ file \in {FileOf(b1, <<Rec(1, <<0, 1>>)>>, "leaf", [block |-> 0, kind |-> "none"]) :
                    b1 \in ChromAssertContents}
    /\ bbifile = [info |-> InfoOf, read |-> [pos |-> 0, reads |-> 0]]
    /\ interval_iter = Idle
    /\ query = NoQuery
    /\ MergeIntoIdle
    /\ MergeIdle
    /\ FillIdle
    /\ WriteIdle
    /\ HarnessIdle

ChromAssertNext ==
    \/ GetInterval
    \/ IntervalIterNext

SpecChromAssert == ChromAssertInit /\ [][ChromAssertNext]_vars

\* the blocks of the query that have been fetched
FetchedBlocks == SubSeq(query.blocks, 1, Len(query.blocks) - Len(interval_iter.blocks))

\* the decoder of the block meets a record of a chromosome other than
\* chrom: it reads the record, no record 0-0 before it having ended the loop
MeetsOtherChrom(block, chrom) ==
    \E i \in 1..Len(file.blocks[block.offset].records) :
        /\ file.blocks[block.offset].records[i].chrom_id # chrom
        /\ \A j \in 1..(i - 1) :
              ~(file.blocks[block.offset].records[j].start = 0
                /\ file.blocks[block.offset].records[j].end = 0)

\* C26: in a query on chromosome c no record of another chromosome is
\* returned, and once a block has been decoded in which the decoder met a
\* record of another chromosome the query has stopped with the assertion
\* failure: it neither goes on nor completes.
C26_OtherChromStopsQuery ==
    (query.call = "get_interval" /\ query.pc \in {"iterating", "done", "panicked"}) =>
        \E c \in {interval_iter.expected_chrom} :
            /\ \A i \in 1..Len(query.items) :
                  query.items[i].ok =>
                      file.blocks[10 * query.items[i].val.rest[1]]
                          .records[query.items[i].val.rest[2]].chrom_id = c
            /\ (\E k \in 1..Len(FetchedBlocks) : MeetsOtherChrom(FetchedBlocks[k], c))
                  => query.pc = "panicked"

(***************************************************************************)
(* An Err item of an input stream (utils.rs:350-353)                        *)
(***************************************************************************)

\* SpecMergeErr: merge_sections_many over a stream holding one Err item, at
\* any place among at most ErrMaxItems Values, and a stream of at most one
\* item, a Value or an Err.
ErrMaxPos == 4
ErrMaxItems == 2

MergeErrInit ==
    /\ \E a \in WithOneErr({OkStream(q) :
                    q \in SortedValueSeqs(ErrMaxItems, Intervals(ErrMaxPos), StreamValues)}),
          b \in {q \in Streams : Len(q) <= 1 /\ \A i \in 1..Len(q) : q[i].val.end <= ErrMaxPos} :
          /\ value_iter = merge_sections_many(<<a, b>>)
          /\ merged = [pc |-> "iterating", inputs |-> <<a, b>>, out |-> <<>>]
    /\ MergeIntoIdle
    /\ FillIdle
    /\ ReadIdle
    /\ WriteIdle
    /\ HarnessIdle

MergeErrNext == ValueIterNext

SpecMergeErr == MergeErrInit /\ [][MergeErrNext]_vars

\* The consumer's calls of next() on it, until None or a panic: the Values
\* returned and how the run ended.
RECURSIVE MergeAll(_, _)
MergeAll(it, out) ==
    CHOOSE m \in {IF r.panic THEN [pc |-> "panicked", out |-> out]
                  ELSE IF IsSome(r.item) THEN MergeAll(r.it, out \o r.item)
                  ELSE [pc |-> "done", out |-> out] :
                      r \in {ValueIter_next(it)}} : TRUE

\* The merge of the Ok values of the streams alone.
MergeOfOkValues(inputs) ==
    MergeAll(merge_sections_many([k \in 1..Len(inputs) |-> OkStream(OkValues(inputs[k]))]),
             <<>>)

HasErr(inputs) ==
    \E k \in 1..Len(inputs) : \E i \in 1..Len(inputs[k]) : ~inputs[k][i].ok

\* C30: an Err item in an input stream of merge_sections_many does not stop
\* the merge and is not given to the consumer: what the consumer has received
\* is at every point a prefix of what the merge of the Ok values of all
\* streams returns, and the run ends as that merge ends, with the same Values.
C30_ErrItemIsSkipped ==
    (merged.pc # "idle" /\ HasErr(merged.inputs)) =>
        \E m \in {MergeOfOkValues(merged.inputs)} :
            /\ IsPrefix(merged.out, m.out)
            /\ merged.pc \in {"done", "panicked"} =>
                  (merged.pc = m.pc /\ merged.out = m.out)

\* A stream whose Err item comes before its Value has been merged with
\* another stream: the Value after the Err is in the output, and the
\* iterator holds the error.
C30_Witness ==
    /\ merged.pc = "done"
    /\ Len(merged.inputs[1]) = 2
    /\ ~merged.inputs[1][1].ok
    /\ merged.inputs[1][2].val = Value(1, 2, 3)
    /\ merged.inputs[2] = OkStream(<<Value(3, 4, 3)>>)
    /\ merged.out = <<Value(1, 2, 3), Value(3, 4, 3)>>
    /\ value_iter.error = "Err"

(***************************************************************************)
(* bigwigaverageoverbed on a bed file: the parallel path above and the      *)
(* sequential path (bigwigaverageoverbed.rs:240-268).  A line of the bed is *)
(* its chromosome and its entry, here the number of the line; the lines of  *)
(* a chromosome are contiguous.  The index of the bed and the parser of a   *)
(* chromosome's lines are those the harness is documented to use: the       *)
(* offset and name of each chromosome's first line, and the lines of the    *)
(* chromosome at that offset.  The temporary file of a chromosome is named  *)
(* by the chromosome's place in the index.                                  *)
(***************************************************************************)
BedMaxLines == 4

BedNames == {"chr1", "chr2", "chr3"}

ChromsContiguous(names) ==
    \A i \in 1..Len(names), k \in 1..Len(names) :
        (i < k /\ names[i] = names[k]) => \A j \in i..k : names[j] = names[i]

Beds ==
    {[i \in 1..Len(names) |-> [chrom |-> names[i], entry |-> i]] :
        names \in {q \in UNION {[1..l -> BedNames] : l \in 0..BedMaxLines} : ChromsContiguous(q)}}

\* index_chroms: (offset, chrom) of the first line of each chromosome
RECURSIVE index_chroms(_, _)
index_chroms(bed, line) ==
    IF line > Len(bed) THEN <<>>
    ELSE (IF line = 1 \/ bed[line].chrom # bed[line - 1].chrom
          THEN <<[start |-> line, chrom |-> bed[line].chrom]>>
          ELSE <<>>) \o index_chroms(bed, line + 1)

\* BedParser::next_chrom on the file at offset start: the chromosome of the
\* line there and the lines that follow while the chromosome is the same
RECURSIVE next_chrom(_, _)
next_chrom(bed, start) ==
    IF start > Len(bed) THEN [chrom |-> "", data |-> <<>>]
    ELSE [chrom |-> bed[start].chrom,
          data |-> <<bed[start].entry>> \o
                   (IF start < Len(bed) /\ bed[start + 1].chrom = bed[start].chrom
                    THEN next_chrom(bed, start + 1).data ELSE <<>>)]

\* the output line of a bed entry: format!("{}\t{}", entry.name, stats), the
\* stats being those of stats_for_bed_item(name, chrom, entry, inbigwig)
stats_line(chrom, entry) == <<entry, <<"stats", chrom, entry>>>>

\* process_chrom(start, chrom, bedinpath, ..): the lines of the temporary
\* file, or Err("Invalid indexing.")
process_chrom_tmp(bed, start, chrom) ==
    IF next_chrom(bed, start).chrom # chrom THEN [ok |-> FALSE, lines |-> <<>>]
    ELSE [ok |-> TRUE,
          lines |-> [i \in 1..Len(next_chrom(bed, start).data) |->
                        stats_line(chrom, next_chrom(bed, start).data[i])]]

\* the sequential path: every line of the bed in turn
sequential(bed) == [i \in 1..Len(bed) |-> stats_line(bed[i].chrom, bed[i].entry)]

\* the state at line 198 for a bed file
AverageInit ==
    /\ groups \in {[pc |-> "bed", lines |-> bed] : bed \in Beds}
    /\ \E n \in {Len(index_chroms(groups.lines, 1))} :
        /\ chrom_data = [i \in 1..n |-> i]
        /\ chrom_data_channel = [i \in 1..n |-> [chrom |-> i, result_sender |-> i]]
        /\ result_channels = [i \in 1..n |-> [buf |-> <<>>, sender |-> TRUE, receiver |-> TRUE]]
    /\ threads = [t \in Workers |-> [pc |-> "recv", task |-> NoTask]]
    /\ main_thread = [pc |-> "pop", result_receiver |-> 0, task |-> NoTask, wait |-> FALSE,
                      returned |-> "running"]
    /\ bedoutwriter = <<>>
    /\ completed = <<>>
    /\ MergeIntoIdle
    /\ MergeIdle
    /\ FillIdle
    /\ ReadIdle

AverageNext == HarnessNext

SpecAverage == AverageInit /\ [][AverageNext]_vars

\* the lines of the temporary files copied to the output so far
RECURSIVE CopiedLines(_, _)
CopiedLines(bed, tmps) ==
    IF tmps = <<>> THEN <<>>
    ELSE process_chrom_tmp(bed, index_chroms(bed, 1)[Head(tmps)].start,
                           index_chroms(bed, 1)[Head(tmps)].chrom).lines
         \o CopiedLines(bed, Tail(tmps))

\* C27: for a bed whose chromosomes are contiguous, in every interleaving of
\* the parallel path the lines written so far are the first lines the
\* sequential path writes, and when main returns Ok the output is exactly
\* the output of the sequential path, line for line.
C27_ParallelEqualsSequential ==
    groups.pc = "bed" =>
        /\ IsPrefix(CopiedLines(groups.lines, bedoutwriter), sequential(groups.lines))
        /\ main_thread.returned = "Ok" =>
              CopiedLines(groups.lines, bedoutwriter) = sequential(groups.lines)

\* a bed of chr2 (two lines), chr1 and chr3, whose chromosomes were completed
\* last, first, second, has been written
C27_Witness ==
    /\ groups.pc = "bed"
    /\ main_thread.returned = "Ok"
    /\ Len(groups.lines) = 4
    /\ groups.lines[1].chrom = "chr2"
    /\ groups.lines[2].chrom = "chr2"
    /\ groups.lines[3].chrom = "chr1"
    /\ groups.lines[4].chrom = "chr3"
    /\ completed = <<3, 1, 2>>
    /\ Len(CopiedLines(groups.lines, bedoutwriter)) = 4

(***************************************************************************)
(* The work of a chromosome in the parallel path of bigwigaverageoverbed:   *)
(* who holds it, and how often it is processed and written.                 *)
(***************************************************************************)

\* the threads that hold the work of chromosome c: spawned threads, and 0
\* for the main thread
TakenBy(c) ==
    {t \in Workers : threads[t].task.chrom = c}
        \cup (IF main_thread.task.chrom = c THEN {0} ELSE {})

Queued(c) == {i \in 1..Len(chrom_data_channel) : chrom_data_channel[i].chrom = c}

TimesIn(seq, c) == Cardinality({i \in 1..Len(seq) : seq[i] = c})

\* the work of c is in one place at most: on the queue, with one thread, or
\* done and its result sent; a result is written once at most, after it was
\* sent; after a successful run it was sent once and written once
OneHolder(c) ==
    /\ Cardinality(Queued(c)) + Cardinality(TakenBy(c)) + TimesIn(completed, c) <= 1
    /\ TimesIn(bedoutwriter, c) <= TimesIn(completed, c)
    /\ main_thread.returned = "Ok" =>
          /\ TimesIn(completed, c) = 1
          /\ TimesIn(bedoutwriter, c) = 1

\* a step hands work out only from the head of the queue, which it takes
\* off, and nothing is put on the queue: work once taken is never taken again
TakenFromQueue ==
    /\ \E k \in 0..1 : chrom_data_channel' = SubSeq(chrom_data_channel, k + 1,
                                                      Len(chrom_data_channel))
    /\ \A c \in 1..Len(result_channels) :
          \A t \in TakenBy(c)' \ TakenBy(c) :
              /\ chrom_data_channel # <<>>
              /\ Head(chrom_data_channel).chrom = c
              /\ chrom_data_channel' = Tail(chrom_data_channel)
              /\ TakenBy(c)' = {t}

\* C28: in every interleaving the work of each indexed chromosome is taken
\* from the queue by one thread only, a spawned thread or the main thread,
\* and is processed once at most; when main returns Ok every chromosome was
\* processed once and its result is in the output once.
C28_EachChromosomeOnce ==
    /\ [](\A c \in 1..Len(result_channels) : OneHolder(c))
    /\ [][TakenFromQueue]_vars

\* the main thread and the two spawned threads each hold the work of one of
\* three chromosomes, the main thread that of the last
C28_Witness ==
    /\ main_thread.pc = "process"
    /\ main_thread.task.chrom = 3
    /\ threads[1].pc = "process"
    /\ threads[2].pc = "process"
    /\ TakenBy(1) \cup TakenBy(2) = {1, 2}
    /\ chrom_data_channel = <<>>

(***************************************************************************)
(* The parallel path of bigwigaverageoverbed under fair scheduling, with    *)
(* spawned threads that may die: a thread that panics unwinds its closure   *)
(* (bigwigaverageoverbed.rs:180-194), which drops the result_sender of the  *)
(* work it holds.                                                           *)
(***************************************************************************)

\* a spawned thread dies: waiting for work, or holding the work of a
\* chromosome whose result it has not sent
ThreadDies(t) ==
    /\ main_thread.pc # "exited"
    /\ threads[t].pc \in {"recv", "process"}
    /\ threads' = [threads EXCEPT ![t] = [pc |-> "dead", task |-> NoTask]]
    /\ result_channels' =
          IF threads[t].pc = "process"
          THEN [result_channels EXCEPT ![threads[t].task.result_sender].sender = FALSE]
          ELSE result_channels
    /\ UNCHANGED <<otherVars, chrom_data, chrom_data_channel, main_thread, bedoutwriter,
                   completed>>

HarnessFairNext ==
    \/ HarnessNext
    \/ \E t \in Workers : ThreadDies(t)

\* every thread that can run does run; nothing makes a thread die
HarnessFairness ==
    /\ \A t \in Workers : WF_vars(ThreadRecv(t)) /\ WF_vars(ThreadProcess(t))
    /\ WF_vars(MainPop)
    /\ WF_vars(MainTryRecv)
    /\ WF_vars(MainTake)
    /\ WF_vars(MainProcess)
    /\ WF_vars(MainRecv)
    /\ WF_vars(ProcessExit)

SpecHarnessFair == HarnessInit /\ [][HarnessFairNext]_vars /\ HarnessFairness

\* C29: under fair scheduling the consumer loop terminates: main returns Ok
\* or Err, whether all tasks succeed, a task returns an error, or a spawned
\* thread dies before taking work or while it holds the work of a chromosome.
C29_ConsumerLoopTerminates == <>(main_thread.returned \in {"Ok", "Err"})

\* main, waiting in recv for the result of the first chromosome, has returned
\* Err: the thread that held the work died before sending
C29_Witness ==
    /\ main_thread.returned = "Err"
    /\ main_thread.wait
    /\ \E t \in Workers : threads[t].pc = "dead"
    /\ ~result_channels[1].sender
    /\ completed = <<>>
    /\ bedoutwriter = <<>>

====
